---------------------------- MODULE Spec2Model ----------------------------
(***************************************************************************)
(* Merchant lifecycle engine (MerchantService) of the dabdub backend.      *)
(*                                                                         *)
(* The persistent store is the variable `merchants` (a sequence; the id of *)
(* a merchant is its index).  Every service method is one action (or, in   *)
(* the concurrent specifications, one action per store call).  Strings the *)
(* code inspects character by character (emails, bank numbers) are         *)
(* sequences of one-character strings.  Write-only audit stamps other than *)
(* closedAt (emailVerifiedAt, kycSubmittedAt, kycVerifiedAt,               *)
(* bankVerifiedAt, updatedAt) are never read by the service and are not    *)
(* part of the state.                                                      *)
(***************************************************************************)
EXTENDS Integers, Sequences, FiniteSets, Bags, TLC

VARIABLES
    merchants,   \* the merchant table of the record store
    now,         \* the wall clock (new Date()), in hours
    nextToken,   \* number of verification tokens generated so far
    last,        \* outcome of the last completed service call
    procs,       \* in-flight checkAndIncrementApiQuota calls (concurrent runs)
    focus,       \* the group of calls a run mixes with the lifecycle calls
    admin        \* the admin sessions and login attempts of the record store

vars == <<merchants, now, nextToken, last, procs, focus, admin>>

----------------------------------------------------------------------------
(* Bounds of the model *)

MaxMerchants == 2
MaxTime == 36
TickHours == 12
MaxTokens == 3
MaxQuotaLimit == 2
MaxQuotaUsed == 3

----------------------------------------------------------------------------
(* Program constants *)

VERIFICATION_TOKEN_EXPIRY_HOURS == 24
DEFAULT_API_QUOTA_LIMIT == 1000

\* `undefined` for an optional token, an optional time stamp, an optional text
NoToken == 0
NoTime == -1
Undefined == "undefined"

MerchantStatus == {"PENDING", "ACTIVE", "INACTIVE", "SUSPENDED", "CLOSED"}
KycStatus == {"NOT_STARTED", "PENDING", "IN_REVIEW", "APPROVED", "REJECTED", "EXPIRED"}
BankAccountStatus == {"NOT_VERIFIED", "PENDING", "VERIFIED", "FAILED"}

VALID_STATUS_TRANSITIONS ==
    [s \in MerchantStatus |->
        CASE s = "PENDING"   -> {"ACTIVE", "SUSPENDED", "CLOSED"}
          [] s = "ACTIVE"    -> {"INACTIVE", "SUSPENDED", "CLOSED"}
          [] s = "INACTIVE"  -> {"ACTIVE", "SUSPENDED", "CLOSED"}
          [] s = "SUSPENDED" -> {"ACTIVE", "CLOSED"}
          [] s = "CLOSED"    -> {}]

VALID_KYC_TRANSITIONS ==
    [k \in KycStatus |->
        CASE k = "NOT_STARTED" -> {"PENDING"}
          [] k = "PENDING"     -> {"IN_REVIEW", "REJECTED"}
          [] k = "IN_REVIEW"   -> {"APPROVED", "REJECTED"}
          [] k = "APPROVED"    -> {"EXPIRED"}
          [] k = "REJECTED"    -> {"PENDING"}
          [] k = "EXPIRED"     -> {"PENDING"}]

----------------------------------------------------------------------------
(* Strings *)

Range(s) == {s[i] : i \in DOMAIN s}

\* the letters A to Z and a to z, in order
UpperLetters ==
    <<"A", "B", "C", "D", "E", "F", "G", "H", "I", "J", "K", "L", "M",
      "N", "O", "P", "Q", "R", "S", "T", "U", "V", "W", "X", "Y", "Z">>
LowerLetters ==
    <<"a", "b", "c", "d", "e", "f", "g", "h", "i", "j", "k", "l", "m",
      "n", "o", "p", "q", "r", "s", "t", "u", "v", "w", "x", "y", "z">>

UpperChars == Range(UpperLetters)
DigitChars == {"0", "1", "2", "3", "4", "5", "6", "7", "8", "9"}

\* String.prototype.toLowerCase, one character
LowerChar(c) ==
    IF \E i \in DOMAIN UpperLetters : UpperLetters[i] = c
    THEN LowerLetters[CHOOSE i \in DOMAIN UpperLetters : UpperLetters[i] = c]
    ELSE c

toLowerCase(s) == [i \in 1..Len(s) |-> LowerChar(s[i])]

\* Array.prototype.includes
includes(s, x) == \E i \in DOMAIN s : s[i] = x

----------------------------------------------------------------------------
(* Record store (MerchantRepository) *)

Ids == 1..Len(merchants)

\* {...row, ...partial}: the fields of partial overwrite those of row
Merge(row, partial) ==
    [f \in DOMAIN row |-> IF f \in DOMAIN partial THEN partial[f] ELSE row[f]]

\* id of the merchant with this email (compared case-insensitively), 0 if none
findByEmail(email) ==
    IF \E i \in Ids : toLowerCase(merchants[i].email) = toLowerCase(email)
    THEN CHOOSE i \in Ids : toLowerCase(merchants[i].email) = toLowerCase(email)
    ELSE 0

findById(id) == IF id \in Ids THEN id ELSE 0

findByVerificationToken(token) ==
    IF \E i \in Ids : merchants[i].emailVerificationToken = token
    THEN CHOOSE i \in Ids : merchants[i].emailVerificationToken = token
    ELSE 0

\* the mutators take the table they act on, so that a handler can chain them
create(store, data) == Append(store, Merge(data, [id |-> Len(store) + 1]))

update(store, id, partial) == [store EXCEPT ![id] = Merge(@, partial)]

updateStatus(store, id, status, data) ==
    [store EXCEPT ![id] = Merge(Merge(@, data), [status |-> status])]

updateKycStatus(store, id, kycStatus, data) ==
    [store EXCEPT ![id] = Merge(Merge(@, data), [kycStatus |-> kycStatus])]

updateBankAccountStatus(store, id, status) ==
    [store EXCEPT ![id] = Merge(@, [bankAccountStatus |-> status])]

\* UPDATE ... SET api_quota_used = api_quota_used + 1, one atomic statement
incrementApiQuota(store, id) ==
    [store EXCEPT ![id].apiQuotaUsed = @ + 1]

resetAllApiQuotas(store) ==
    [i \in DOMAIN store |-> Merge(store[i], [apiQuotaUsed |-> 0])]

findExpiredVerificationTokens ==
    {i \in Ids : /\ merchants[i].emailVerificationToken # NoToken
                 /\ merchants[i].emailVerificationExpiresAt # NoTime
                 /\ merchants[i].emailVerificationExpiresAt < now}

----------------------------------------------------------------------------
(* Outcome of a service call: the method, the merchant it resolved, "ok" or *)
(* the exception thrown, the exception's payload (for "ok": what the call   *)
(* was asked to do), the emails handed to the email service.  Runs that mix *)
(* a further group of calls into the lifecycle keep no record of outcomes.  *)

NoOutcome == [op |-> "", id |-> 0, result |-> "", detail |-> <<>>, sent |-> <<>>]

Outcome(op, id, result, detail, sent) ==
    IF focus = "lifecycle"
    THEN [op |-> op, id |-> id, result |-> result, detail |-> detail, sent |-> sent]
    ELSE NoOutcome

\* a send whose failure reaches the caller
thrownOn(emailOk) == IF emailOk THEN "ok" ELSE "EmailSendFailed"

\* try { await emailService... } catch { logger.error }: the call goes on to
\* its return whatever the sender did
bestEffort(emailOk) == "ok"

\* emailService.<kind>(...) inside try/catch: delivered, or failed and logged
Sent(kind, emailOk) == IF emailOk THEN <<kind>> ELSE <<>>

----------------------------------------------------------------------------
(* MerchantService: registration and email verification *)

EmailInputs == {<<"j", "@", "x">>, <<"J", "@", "X">>, <<"k", "@", "x">>}

\* preferences with every notification switched on
allNotificationsOn ==
    [emailNotifications |-> TRUE, smsNotifications |-> TRUE,
     pushNotifications |-> TRUE, paymentReceived |-> TRUE,
     settlementCompleted |-> TRUE, kycStatusUpdate |-> TRUE,
     securityAlerts |-> TRUE, marketingEmails |-> TRUE]

getDefaultNotificationPreferences ==
    [emailNotifications |-> TRUE, smsNotifications |-> FALSE,
     pushNotifications |-> TRUE, paymentReceived |-> TRUE,
     settlementCompleted |-> TRUE, kycStatusUpdate |-> TRUE,
     securityAlerts |-> TRUE, marketingEmails |-> FALSE]

\* crypto.randomBytes(32): a value never generated before
generateVerificationToken == nextToken + 1

NewMerchant(email, token, expiry) ==
    [id |-> 0,
     email |-> toLowerCase(email),
     status |-> "PENDING",
     kycStatus |-> "NOT_STARTED",
     emailVerified |-> FALSE,
     emailVerificationToken |-> token,
     emailVerificationExpiresAt |-> expiry,
     bankAccountStatus |-> "NOT_VERIFIED",
     bankAccountNumber |-> <<>>,
     bankRoutingNumber |-> <<>>,
     bankSwiftCode |-> <<>>,
     bankIban |-> <<>>,
     supportedCurrencies |-> <<"USD">>,
     defaultCurrency |-> "USD",
     settlementFrequency |-> "daily",
     apiQuotaLimit |-> DEFAULT_API_QUOTA_LIMIT,
     apiQuotaUsed |-> 0,
     apiQuotaResetAt |-> NoTime,
     notificationPreferences |-> getDefaultNotificationPreferences,
     businessName |-> Undefined,
     businessRegistrationNumber |-> <<>>,
     country |-> <<>>,
     suspensionReason |-> Undefined,
     closedAt |-> NoTime,
     closedReason |-> Undefined,
     kycDocuments |-> <<>>,
     kycRejectionReason |-> Undefined]

\* the existence check comparing the email as typed with the stored one
emailTakenExact(email) == \E i \in Ids : merchants[i].email = email

\* whether registerMerchant finds the email taken
emailTaken(email) == findByEmail(email) # 0

registerMerchant(email, emailOk) ==
    /\ IF emailTaken(email)
       THEN /\ last' = Outcome("registerMerchant", findByEmail(email),
                               "MerchantAlreadyExists", email, <<>>)
            /\ UNCHANGED <<merchants, nextToken>>
       ELSE /\ Len(merchants) < MaxMerchants
            /\ nextToken < MaxTokens
            /\ merchants' = create(merchants,
                                   NewMerchant(email, generateVerificationToken,
                                               now + VERIFICATION_TOKEN_EXPIRY_HOURS))
            /\ nextToken' = nextToken + 1
            /\ last' = Outcome("registerMerchant", Len(merchants) + 1,
                               bestEffort(emailOk),
                               <<email, generateVerificationToken>>,
                               Sent("verification", emailOk))
    /\ UNCHANGED <<now, procs, focus, admin>>

TokenInputs == 1..MaxTokens

\* the expiry check comparing the wrong way round
tokenExpiredReversed(m) ==
    m.emailVerificationExpiresAt # NoTime /\ m.emailVerificationExpiresAt > now

\* emailVerificationExpiresAt && emailVerificationExpiresAt < new Date()
tokenExpired(m) ==
    m.emailVerificationExpiresAt # NoTime /\ m.emailVerificationExpiresAt < now

\* the checks with the expiry looked at before the verification flag
verifyEmailGuardExpiryFirst(m) ==
    IF tokenExpired(m) THEN "MerchantVerificationTokenExpired"
    ELSE IF m.emailVerified THEN "MerchantEmailAlreadyVerified"
    ELSE "ok"

\* the checks of verifyEmail on the merchant found, in the order of the code;
\* "ok" if none fires
verifyEmailGuard(m) ==
    IF m.emailVerified THEN "MerchantEmailAlreadyVerified"
    ELSE IF tokenExpired(m) THEN "MerchantVerificationTokenExpired"
    ELSE "ok"

verifyEmail(token, emailOk) ==
    LET id == findByVerificationToken(token) IN
    /\ IF id = 0
       THEN /\ last' = Outcome("verifyEmail", 0, "MerchantVerificationTokenInvalid",
                               <<>>, <<>>)
            /\ UNCHANGED merchants
       ELSE IF verifyEmailGuard(merchants[id]) # "ok"
       THEN /\ last' = Outcome("verifyEmail", id, verifyEmailGuard(merchants[id]),
                               <<>>, <<>>)
            /\ UNCHANGED merchants
       ELSE /\ merchants' = update(merchants, id,
                                   [emailVerified |-> TRUE,
                                    emailVerificationToken |-> NoToken,
                                    emailVerificationExpiresAt |-> NoTime])
            /\ last' = Outcome("verifyEmail", id, "ok", <<token>>,
                               Sent("welcome", emailOk))
    /\ UNCHANGED <<now, nextToken, procs, focus, admin>>

\* a resend that keeps the token and only renews its expiry
resendSameToken(email, emailOk) ==
    LET id == findByEmail(email) IN
    /\ IF id = 0
       THEN /\ last' = Outcome("resendVerificationEmail", 0, "MerchantNotFound",
                               <<>>, <<>>)
            /\ UNCHANGED <<merchants, nextToken>>
       ELSE IF merchants[id].emailVerified
       THEN /\ last' = Outcome("resendVerificationEmail", id,
                               "MerchantEmailAlreadyVerified", <<>>, <<>>)
            /\ UNCHANGED <<merchants, nextToken>>
       ELSE /\ nextToken < MaxTokens
            /\ merchants' = update(merchants, id,
                                   [emailVerificationExpiresAt |->
                                        now + VERIFICATION_TOKEN_EXPIRY_HOURS])
            /\ nextToken' = nextToken + 1
            /\ last' = Outcome("resendVerificationEmail", id,
                               IF emailOk THEN "ok" ELSE "EmailSendFailed",
                               <<merchants[id].emailVerificationToken>>,
                               Sent("verification", emailOk))
    /\ UNCHANGED <<now, procs, focus, admin>>

\* the email is sent outside any try/catch: a failure of the sender is thrown
\* after the new token has been stored
resendVerificationEmail(email, emailOk) ==
    LET id == findByEmail(email) IN
    /\ IF id = 0
       THEN /\ last' = Outcome("resendVerificationEmail", 0, "MerchantNotFound",
                               <<>>, <<>>)
            /\ UNCHANGED <<merchants, nextToken>>
       ELSE IF merchants[id].emailVerified
       THEN /\ last' = Outcome("resendVerificationEmail", id,
                               "MerchantEmailAlreadyVerified", <<>>, <<>>)
            /\ UNCHANGED <<merchants, nextToken>>
       ELSE /\ nextToken < MaxTokens
            /\ merchants' = update(merchants, id,
                                   [emailVerificationToken |-> generateVerificationToken,
                                    emailVerificationExpiresAt |->
                                        now + VERIFICATION_TOKEN_EXPIRY_HOURS])
            /\ nextToken' = nextToken + 1
            /\ last' = Outcome("resendVerificationEmail", id,
                               IF emailOk THEN "ok" ELSE "EmailSendFailed",
                               <<generateVerificationToken>>,
                               Sent("verification", emailOk))
    /\ UNCHANGED <<now, procs, focus, admin>>

----------------------------------------------------------------------------
(* MerchantService: KYC *)

IdInputs == 1..MaxMerchants

DocInputs ==
    {<<>>, <<"government_id">>, <<"proof_of_address", "passport">>,
     <<"government_id", "proof_of_address">>}

requiredDocTypes == <<"government_id", "proof_of_address">>

\* the filter without its negation
missingDocsInverted(documents) ==
    SelectSeq(requiredDocTypes, LAMBDA t : includes(documents, t))

\* requiredDocTypes.filter(type => !submittedTypes.includes(type))
missingDocs(documents) ==
    SelectSeq(requiredDocTypes, LAMBDA t : ~includes(documents, t))

\* the guards preceded by a refusal of suspended and closed merchants
submitKycGuardActive(m, documents) ==
    IF m.status = "SUSPENDED" THEN "MerchantSuspended"
    ELSE IF m.status = "CLOSED" THEN "MerchantClosed"
    ELSE IF ~m.emailVerified THEN "MerchantEmailNotVerified"
    ELSE IF m.kycStatus = "APPROVED" THEN "KycAlreadyApproved"
    ELSE IF m.kycStatus = "IN_REVIEW" THEN "KycAlreadySubmitted"
    ELSE IF Len(missingDocs(documents)) > 0 THEN "KycDocumentRequired"
    ELSE "ok"

\* the guards without the one on the email verification
submitKycGuardUnverified(m, documents) ==
    IF m.kycStatus = "APPROVED" THEN "KycAlreadyApproved"
    ELSE IF m.kycStatus = "IN_REVIEW" THEN "KycAlreadySubmitted"
    ELSE IF Len(missingDocs(documents)) > 0 THEN "KycDocumentRequired"
    ELSE "ok"

\* the guards with the KYC status looked at before the email verification
submitKycGuardStatusFirst(m, documents) ==
    IF m.kycStatus = "APPROVED" THEN "KycAlreadyApproved"
    ELSE IF m.kycStatus = "IN_REVIEW" THEN "KycAlreadySubmitted"
    ELSE IF ~m.emailVerified THEN "MerchantEmailNotVerified"
    ELSE IF Len(missingDocs(documents)) > 0 THEN "KycDocumentRequired"
    ELSE "ok"

\* the guards of submitKycDocuments, in the order of the code; "ok" if none fires
submitKycGuard(m, documents) ==
    IF ~m.emailVerified THEN "MerchantEmailNotVerified"
    ELSE IF m.kycStatus = "APPROVED" THEN "KycAlreadyApproved"
    ELSE IF m.kycStatus = "IN_REVIEW" THEN "KycAlreadySubmitted"
    ELSE IF Len(missingDocs(documents)) > 0 THEN "KycDocumentRequired"
    ELSE "ok"

submitKycDocuments(id, documents, emailOk) ==
    /\ IF findById(id) = 0
       THEN /\ last' = Outcome("submitKycDocuments", 0, "MerchantNotFound",
                               <<>>, <<>>)
            /\ UNCHANGED merchants
       ELSE LET m == merchants[id]
                g == submitKycGuard(m, documents) IN
            IF g # "ok"
            THEN /\ last' = Outcome("submitKycDocuments", id, g,
                                    IF g = "KycDocumentRequired"
                                    THEN missingDocs(documents) ELSE <<>>, <<>>)
                 /\ UNCHANGED merchants
            ELSE /\ merchants' =
                       updateKycStatus(merchants, id, "PENDING",
                           [kycDocuments |->
                               [i \in 1..Len(documents) |->
                                   [type |-> documents[i], status |-> "pending"]]])
                 /\ last' = Outcome("submitKycDocuments", id, "ok", documents,
                                    Sent("kycSubmitted", emailOk))
    /\ UNCHANGED <<now, nextToken, procs, focus, admin>>

Decisions == {"approved", "rejected"}
Reasons == {Undefined, "fraud"}

\* a check that also lets an approved KYC be decided again
kycDecidableOrApproved(kycStatus) ==
    kycStatus \in {"PENDING", "IN_REVIEW", "APPROVED"}

\* a check that also lets a rejected KYC be decided again
kycDecidableOrRejected(kycStatus) ==
    kycStatus \in {"PENDING", "IN_REVIEW", "REJECTED"}

\* verifyKyc decides only a KYC that is PENDING or IN_REVIEW
kycDecidable(kycStatus) == kycStatus = "PENDING" \/ kycStatus = "IN_REVIEW"

\* an approval that never activates
activatesNever(m) == FALSE

\* activation on approval whatever the status
activatesAnyStatus(m) == m.emailVerified

\* activation on approval of the unverified instead of the verified
activatesUnverified(m) == ~m.emailVerified /\ m.status = "PENDING"

\* merchant.emailVerified && merchant.status === MerchantStatus.PENDING
activatesOnApproval(m) == m.emailVerified /\ m.status = "PENDING"

\* the table after verifyKyc's store calls for this decision
verifyKycWrites(store, id, m, decision, rejectionReason) ==
    IF decision = "approved"
    THEN LET approved == updateKycStatus(store, id, "APPROVED", << >>) IN
         IF activatesOnApproval(m)
         THEN updateStatus(approved, id, "ACTIVE", << >>)
         ELSE approved
    ELSE updateKycStatus(store, id, "REJECTED",
                         [kycRejectionReason |-> rejectionReason])

verifyKyc(id, decision, rejectionReason, emailOk) ==
    /\ IF findById(id) = 0
       THEN /\ last' = Outcome("verifyKyc", 0, "MerchantNotFound", <<>>, <<>>)
            /\ UNCHANGED merchants
       ELSE LET m == merchants[id] IN
            IF ~kycDecidable(m.kycStatus)
            THEN /\ last' = Outcome("verifyKyc", id, "KycInvalidStatus",
                                    <<m.kycStatus, decision>>, <<>>)
                 /\ UNCHANGED merchants
            ELSE /\ merchants' = verifyKycWrites(merchants, id, m, decision,
                                                 rejectionReason)
                 /\ last' = Outcome("verifyKyc", id, "ok",
                                    <<decision, rejectionReason>>,
                                    Sent(IF decision = "approved"
                                         THEN "kycApproved" ELSE "kycRejected",
                                         emailOk))
    /\ UNCHANGED <<now, nextToken, procs, focus, admin>>

----------------------------------------------------------------------------
(* MerchantService: status transitions *)

\* a transition check that also lets a status be requested again
canTransitionOrStay(current, requested) ==
    requested \in VALID_STATUS_TRANSITIONS[current] \cup {current}

\* validTransitions.includes(dto.status)
canTransition(current, requested) ==
    requested \in VALID_STATUS_TRANSITIONS[current]

\* the switch that fills updateData
statusUpdateData(status, reason) ==
    CASE status = "SUSPENDED" -> [suspensionReason |-> reason]
      [] status = "CLOSED"    -> [closedAt |-> now, closedReason |-> reason]
      [] OTHER                -> << >>

\* a notification of every activation, not only of a reactivation
statusEmailOnActivation(previous, status, emailOk) ==
    IF status = "SUSPENDED" THEN Sent("accountSuspended", emailOk)
    ELSE IF status = "ACTIVE" THEN Sent("accountReactivated", emailOk)
         ELSE <<>>

\* the notification of a status change, if any
statusEmail(previous, status, emailOk) ==
    IF status = "SUSPENDED" THEN Sent("accountSuspended", emailOk)
    ELSE IF status = "ACTIVE" /\ previous = "SUSPENDED"
         THEN Sent("accountReactivated", emailOk)
         ELSE <<>>

\* the body of changeMerchantStatus; op names the public method called
changeStatus(op, id, status, reason, emailOk) ==
    /\ IF findById(id) = 0
       THEN /\ last' = Outcome(op, 0, "MerchantNotFound", <<>>, <<>>)
            /\ UNCHANGED merchants
       ELSE LET m == merchants[id] IN
            IF ~canTransition(m.status, status)
            THEN /\ last' = Outcome(op, id, "MerchantInvalidStatus",
                                    <<m.status, status>>, <<>>)
                 /\ UNCHANGED merchants
            ELSE /\ merchants' = updateStatus(merchants, id, status,
                                              statusUpdateData(status, reason))
                 /\ last' = Outcome(op, id, "ok", <<status, reason>>,
                                    statusEmail(m.status, status, emailOk))
    /\ UNCHANGED <<now, nextToken, procs, focus, admin>>

changeMerchantStatus(id, status, reason, emailOk) ==
    changeStatus("changeMerchantStatus", id, status, reason, emailOk)

activateMerchant(id, emailOk) ==
    changeStatus("activateMerchant", id, "ACTIVE", Undefined, emailOk)

suspendMerchant(id, reason, emailOk) ==
    changeStatus("suspendMerchant", id, "SUSPENDED", reason, emailOk)

closeMerchantAccount(id, reason, emailOk) ==
    changeStatus("closeMerchantAccount", id, "CLOSED", reason, emailOk)

----------------------------------------------------------------------------
(* MerchantService: profile, bank account and preferences *)

\* a check that stops the suspended merchant only
validateMerchantNotSuspended(m) ==
    IF m.status = "SUSPENDED" THEN "MerchantSuspended" ELSE "ok"

\* validateMerchantActive: the exception it throws, "ok" if none
validateMerchantActive(m) ==
    IF m.status = "SUSPENDED" THEN "MerchantSuspended"
    ELSE IF m.status = "CLOSED" THEN "MerchantClosed"
    ELSE "ok"

\* a handler that loads the merchant, requires it active (if gated), validates
\* the request (check is "ok" or the exception) and stores a partial update
guardedUpdate(op, id, gated, check, partial) ==
    /\ IF findById(id) = 0
       THEN /\ last' = Outcome(op, 0, "MerchantNotFound", <<>>, <<>>)
            /\ UNCHANGED merchants
       ELSE LET m == merchants[id]
                active == IF gated THEN validateMerchantActive(m) ELSE "ok" IN
            IF active # "ok"
            THEN /\ last' = Outcome(op, id, active, <<>>, <<>>)
                 /\ UNCHANGED merchants
            ELSE IF check # "ok"
            THEN /\ last' = Outcome(op, id, check, <<>>, <<>>)
                 /\ UNCHANGED merchants
            ELSE /\ merchants' = update(merchants, id, partial)
                 /\ last' = Outcome(op, id, "ok", partial, <<>>)
    /\ UNCHANGED <<now, nextToken, procs, focus, admin>>

NameInputs == {"Acme"}

updateProfile(id, businessName) ==
    guardedUpdate("updateProfile", id, TRUE, "ok", [businessName |-> businessName])

\* n copies of the character c
Rep(c, n) == [i \in 1..n |-> c]

\* validateBusinessRegistrationNumber / validateTaxId: 5 to 50 characters
validLength(s) == ~(Len(s) < 5 \/ Len(s) > 50)

RegNumberInputs == {<<>>, Rep("7", 4), Rep("7", 5), Rep("7", 51)}

\* an absent (empty) number is neither validated nor stored
updateBusinessDetails(id, regNumber) ==
    guardedUpdate("updateBusinessDetails", id, TRUE,
                  IF Len(regNumber) > 0 /\ ~validLength(regNumber)
                  THEN "Error" ELSE "ok",
                  IF Len(regNumber) > 0
                  THEN [businessRegistrationNumber |-> regNumber] ELSE << >>)

UpperChar(c) ==
    IF \E i \in DOMAIN LowerLetters : LowerLetters[i] = c
    THEN UpperLetters[CHOOSE i \in DOMAIN LowerLetters : LowerLetters[i] = c]
    ELSE c

toUpperCase(s) == [i \in 1..Len(s) |-> UpperChar(s[i])]

CountryInputs == {<<"u", "s">>}

updateAddress(id, country) ==
    guardedUpdate("updateAddress", id, TRUE, "ok", [country |-> toUpperCase(country)])

IsDigits(s) == \A i \in DOMAIN s : s[i] \in DigitChars
IsUpperOrDigits(s) == \A i \in DOMAIN s : s[i] \in UpperChars \cup DigitChars
IsUppers(s) == \A i \in DOMAIN s : s[i] \in UpperChars

\* /^\d{4,17}$/
validAccountNumber(s) == Len(s) >= 4 /\ Len(s) <= 17 /\ IsDigits(s)

\* a routing number of up to 9 digits
validRoutingNumberUpTo(s) == Len(s) <= 9 /\ IsDigits(s)

\* /^\d{9}$/
validRoutingNumber(s) == Len(s) = 9 /\ IsDigits(s)

\* /^[A-Z]{6}[A-Z0-9]{2}([A-Z0-9]{3})?$/
validSwiftCode(s) ==
    /\ Len(s) \in {8, 11}
    /\ IsUppers(SubSeq(s, 1, 6))
    /\ IsUpperOrDigits(SubSeq(s, 7, Len(s)))

\* /^[A-Z]{2}\d{2}[A-Z0-9]{4,30}$/
validIban(s) ==
    /\ Len(s) >= 8 /\ Len(s) <= 34
    /\ IsUppers(SubSeq(s, 1, 2))
    /\ IsDigits(SubSeq(s, 3, 4))
    /\ IsUpperOrDigits(SubSeq(s, 5, Len(s)))

\* validateBankAccountDetails: the first failing check; an absent (empty)
\* optional field is not checked
validateBankAccountDetails(dto) ==
    IF ~validAccountNumber(dto.accountNumber) THEN "BankAccountInvalid"
    ELSE IF Len(dto.routingNumber) > 0 /\ ~validRoutingNumber(dto.routingNumber)
    THEN "BankAccountInvalid"
    ELSE IF Len(dto.swiftCode) > 0 /\ ~validSwiftCode(dto.swiftCode)
    THEN "BankAccountInvalid"
    ELSE IF Len(dto.iban) > 0 /\ ~validIban(dto.iban) THEN "BankAccountInvalid"
    ELSE "ok"

\* account numbers, routing numbers, a SWIFT code and an IBAN, well and ill
\* formed
RoutingOk == <<"0", "2", "1", "0", "0", "0", "0", "2", "1">>
SwiftOk == <<"C", "H", "A", "S", "U", "S", "3", "3">>
IbanOk == <<"G", "B", "8", "2", "W", "E", "S", "T", "1", "2">>
BankDto(account, routing, swift, iban) ==
    [accountNumber |-> account, routingNumber |-> routing,
     swiftCode |-> swift, iban |-> iban]

BankInputs ==
    {BankDto(<<"1", "2">>, <<>>, <<>>, <<>>),
     BankDto(Rep("1", 10), <<"1", "2", "3">>, <<>>, <<>>),
     BankDto(Rep("1", 10), RoutingOk, <<>>, <<>>),
     BankDto(Rep("1", 18), RoutingOk, <<>>, <<>>),
     BankDto(<<"1", "2", "a", "4">>, RoutingOk, <<>>, <<>>),
     BankDto(<<"1", "2", "3", "4">>, RoutingOk, SwiftOk, IbanOk),
     BankDto(Rep("1", 10), RoutingOk, <<"c", "h", "a", "s", "u", "s", "3", "3">>,
             <<>>),
     BankDto(Rep("1", 10), RoutingOk, <<>>, <<"G", "B", "8">>),
     BankDto(Rep("1", 17), <<>>, <<>>, <<>>)}

updateBankAccount(id, dto) ==
    guardedUpdate("updateBankAccount", id, TRUE, validateBankAccountDetails(dto),
                  [bankAccountNumber |-> dto.accountNumber,
                   bankRoutingNumber |-> dto.routingNumber,
                   bankSwiftCode |-> dto.swiftCode,
                   bankIban |-> dto.iban,
                   bankAccountStatus |-> "PENDING"])

\* a check of the account number alone
accountNumberAbsent(m) == Len(m.bankAccountNumber) = 0

\* !merchant.bankAccountNumber || !merchant.bankRoutingNumber
bankAccountAbsent(m) ==
    Len(m.bankAccountNumber) = 0 \/ Len(m.bankRoutingNumber) = 0

\* bankVerificationService.verifyBankAccount(...): the arguments of the call
providerCall(m) == <<m.bankAccountNumber, m.bankRoutingNumber>>

\* providerOk is the answer of the bank verification provider
verifyBankAccount(id, providerOk, emailOk) ==
    /\ IF findById(id) = 0
       THEN /\ last' = Outcome("verifyBankAccount", 0, "MerchantNotFound", <<>>, <<>>)
            /\ UNCHANGED merchants
       ELSE LET m == merchants[id] IN
            IF bankAccountAbsent(m)
            THEN /\ last' = Outcome("verifyBankAccount", id, "BankAccountNotFound",
                                    <<>>, <<>>)
                 /\ UNCHANGED merchants
            ELSE IF m.bankAccountStatus = "VERIFIED"
            THEN /\ last' = Outcome("verifyBankAccount", id,
                                    "BankAccountAlreadyVerified", <<>>, <<>>)
                 /\ UNCHANGED merchants
            ELSE IF ~providerOk
            THEN /\ merchants' = updateBankAccountStatus(merchants, id, "FAILED")
                 /\ last' = Outcome("verifyBankAccount", id,
                                    "BankAccountVerificationFailed",
                                    providerCall(m), <<>>)
            ELSE /\ merchants' = updateBankAccountStatus(merchants, id, "VERIFIED")
                 /\ last' = Outcome("verifyBankAccount", id, "ok",
                                    providerCall(m),
                                    Sent("bankAccountVerified", emailOk))
    /\ UNCHANGED <<now, nextToken, procs, focus, admin>>

FrequencyInputs == {"weekly"}

updateSettlementPreferences(id, frequency) ==
    guardedUpdate("updateSettlementPreferences", id, TRUE, "ok",
                  [settlementFrequency |-> frequency])

NotificationInputs == {[smsNotifications |-> TRUE]}

\* {...currentPrefs, ...dto}; not gated by the merchant's status
updateNotificationPreferences(id, dto) ==
    guardedUpdate("updateNotificationPreferences", id, FALSE, "ok",
                  [notificationPreferences |->
                      Merge(IF findById(id) = 0
                            THEN getDefaultNotificationPreferences
                            ELSE merchants[id].notificationPreferences, dto)])

CurrencyLists == {<<>>, <<"GBP">>, <<"USD", "EUR">>}
Currencies == {"USD", "EUR"}

\* the supplied list stored as it came
withoutDefaultCurrency(supported, default) == supported

\* if (!supported.includes(default)) supported.push(default)
withDefaultCurrency(supported, default) ==
    IF includes(supported, default) THEN supported ELSE Append(supported, default)

updateCurrencySettings(id, supported, default) ==
    guardedUpdate("updateCurrencySettings", id, TRUE, "ok",
                  [supportedCurrencies |-> withDefaultCurrency(supported, default),
                   defaultCurrency |-> default])

----------------------------------------------------------------------------
(* MerchantService: API quota *)

QuotaLimits == 0..MaxQuotaLimit

\* a quota update open to active merchants only
updateApiQuotaGated(id, limit) ==
    guardedUpdate("updateApiQuota", id, TRUE, "ok", [apiQuotaLimit |-> limit])

updateApiQuota(id, limit) ==
    guardedUpdate("updateApiQuota", id, FALSE, "ok", [apiQuotaLimit |-> limit])

\* the quota check off by one
quotaExceededStrict(m) == m.apiQuotaUsed > m.apiQuotaLimit

\* merchant.apiQuotaUsed >= merchant.apiQuotaLimit, on the merchant as read
quotaExceeded(m) == m.apiQuotaUsed >= m.apiQuotaLimit

\* the whole call, run without interleaving
checkAndIncrementApiQuota(id) ==
    /\ IF findById(id) = 0
       THEN /\ last' = Outcome("checkAndIncrementApiQuota", 0, "MerchantNotFound",
                               <<>>, <<>>)
            /\ UNCHANGED merchants
       ELSE LET m == merchants[id] IN
            IF quotaExceeded(m)
            THEN /\ last' = Outcome("checkAndIncrementApiQuota", id,
                                    "ApiQuotaExceeded",
                                    <<m.apiQuotaLimit, m.apiQuotaResetAt>>, <<>>)
                 /\ UNCHANGED merchants
            ELSE /\ m.apiQuotaUsed < MaxQuotaUsed
                 /\ merchants' = incrementApiQuota(merchants, id)
                 /\ last' = Outcome("checkAndIncrementApiQuota", id, "ok", <<>>, <<>>)
    /\ UNCHANGED <<now, nextToken, procs, focus, admin>>

\* a reset of the merchants that have used up their quota only
resetExceededQuotas ==
    /\ merchants' = [i \in DOMAIN merchants |->
                        IF quotaExceeded(merchants[i])
                        THEN Merge(merchants[i], [apiQuotaUsed |-> 0])
                        ELSE merchants[i]]
    /\ last' = Outcome("resetApiQuotas", 0, "ok", <<>>, <<>>)
    /\ UNCHANGED <<now, nextToken, procs, focus, admin>>

resetApiQuotas ==
    /\ merchants' = resetAllApiQuotas(merchants)
    /\ last' = Outcome("resetApiQuotas", 0, "ok", <<>>, <<>>)
    /\ UNCHANGED <<now, nextToken, procs, focus, admin>>

----------------------------------------------------------------------------
(* MerchantService: search *)

MaxTotal == 7
DEFAULT_PAGE == 1
DEFAULT_LIMIT == 20

\* x || d: an absent number (written 0, which is as falsy) gives the default
orDefault(x, d) == IF x = 0 THEN d ELSE x

\* the quotient rounded down
floorDiv(total, limit) == total \div limit

\* Math.ceil(total / limit), for total >= 0 and limit >= 1
ceilDiv(total, limit) ==
    IF total % limit = 0 THEN total \div limit ELSE (total \div limit) + 1

\* requested pages and limits (0: none given), and the numbers of merchants
\* the store's search can report
PageInputs == {0, 1, 2, 3}
LimitInputs == {0, 1, 3, 100}
TotalInputs == (0..MaxTotal) \cup {20, 21, 100, 101}

\* total is the count that merchantRepository.search(dto) returns
searchMerchants(page, limit, total) ==
    /\ last' = Outcome("searchMerchants", 0, "ok",
                       [total |-> total,
                        page |-> orDefault(page, DEFAULT_PAGE),
                        limit |-> orDefault(limit, DEFAULT_LIMIT),
                        totalPages |->
                            ceilDiv(total, orDefault(limit, DEFAULT_LIMIT))],
                       <<>>)
    /\ UNCHANGED <<merchants, now, nextToken, procs, focus, admin>>

----------------------------------------------------------------------------
(* MerchantService: scheduled jobs *)

\* a cleanup of the token of every unverified merchant, expired or not
cleanupUnverifiedTokens ==
    /\ merchants' =
          [i \in DOMAIN merchants |->
              IF ~merchants[i].emailVerified
              THEN Merge(merchants[i], [emailVerificationToken |-> NoToken,
                                        emailVerificationExpiresAt |-> NoTime])
              ELSE merchants[i]]
    /\ last' = Outcome("cleanupExpiredTokens", 0, "ok",
                       findExpiredVerificationTokens, <<>>)
    /\ UNCHANGED <<now, nextToken, procs, focus, admin>>

cleanupExpiredTokens ==
    /\ merchants' =
          [i \in DOMAIN merchants |->
              IF i \in findExpiredVerificationTokens
              THEN Merge(merchants[i], [emailVerificationToken |-> NoToken,
                                        emailVerificationExpiresAt |-> NoTime])
              ELSE merchants[i]]
    /\ last' = Outcome("cleanupExpiredTokens", 0, "ok",
                       findExpiredVerificationTokens, <<>>)
    /\ UNCHANGED <<now, nextToken, procs, focus, admin>>

----------------------------------------------------------------------------
(* checkAndIncrementApiQuota under interleaving: the call awaits the read of *)
(* the merchant, then checks the row it read and awaits the store's          *)
(* increment.  procs[p] is call p: where it stands, the row it read, its     *)
(* outcome, and the calls that were between read and increment together      *)
(* with it.                                                                  *)

MaxProcs == 2
Procs == 1..MaxProcs

IdleProc ==
    [pc |-> "idle", id |-> 0, used |-> 0, limit |-> 0, result |-> "none",
     overlaps |-> {}]

\* the calls that have read merchant id and not yet incremented
InFlight(id) == {q \in Procs : procs[q].pc = "read" /\ procs[q].id = id}

\* await this.getMerchantById(id)
quotaRead(p, id) ==
    /\ procs[p].pc = "idle"
    /\ findById(id) # 0
    /\ procs' = [q \in Procs |->
                    IF q = p
                    THEN [pc |-> "read", id |-> id,
                          used |-> merchants[id].apiQuotaUsed,
                          limit |-> merchants[id].apiQuotaLimit,
                          result |-> "none", overlaps |-> InFlight(id)]
                    ELSE IF q \in InFlight(id)
                    THEN [procs[q] EXCEPT !.overlaps = @ \cup {p}]
                    ELSE procs[q]]
    /\ last' = Outcome("quotaRead", id, "ok", <<>>, <<>>)
    /\ UNCHANGED <<merchants, now, nextToken, focus, admin>>

\* the check on the row read, then await incrementApiQuota(id)
quotaCheckAndIncrement(p) ==
    LET c == procs[p] IN
    /\ c.pc = "read"
    /\ IF quotaExceeded([apiQuotaUsed |-> c.used, apiQuotaLimit |-> c.limit])
       THEN /\ procs' = [procs EXCEPT ![p].pc = "done",
                                      ![p].result = "ApiQuotaExceeded"]
            /\ last' = Outcome("checkAndIncrementApiQuota", c.id,
                               "ApiQuotaExceeded", <<c.limit>>, <<>>)
            /\ UNCHANGED merchants
       ELSE /\ merchants[c.id].apiQuotaUsed < MaxQuotaUsed
            /\ merchants' = incrementApiQuota(merchants, c.id)
            /\ procs' = [procs EXCEPT ![p].pc = "done", ![p].result = "ok"]
            /\ last' = Outcome("checkAndIncrementApiQuota", c.id, "ok", <<>>, <<>>)
    /\ UNCHANGED <<now, nextToken, focus, admin>>

\* the caller takes the outcome; the slot is free for another call
quotaReturn(p) ==
    /\ procs[p].pc = "done"
    /\ procs' = [procs EXCEPT ![p] = IdleProc]
    /\ last' = Outcome("quotaReturn", 0, "ok", <<>>, <<>>)
    /\ UNCHANGED <<merchants, now, nextToken, focus, admin>>

----------------------------------------------------------------------------
(* changeMerchantStatus and verifyKyc under interleaving: each call awaits  *)
(* the read of the merchant, checks the row it read and awaits its store     *)
(* calls one by one.  procs[p] is call p: the method, where it stands, the   *)
(* row it read, what it was asked for and its outcome.                       *)

IdleCall ==
    [pc |-> "idle", op |-> "", id |-> 0, email |-> <<>>, status |-> "",
     kycStatus |-> "", emailVerified |-> FALSE, target |-> "", bank |-> <<>>,
     pending |-> <<>>, result |-> "none"]

\* a call that has made its last store call, or has thrown
DoneCall(c, result) == [IdleCall EXCEPT !.pc = "done", !.op = c.op, !.result = result]

\* await this.getMerchantById(id), in changeMerchantStatus; of the row read
\* the call uses the status
statusRead(p, id, status) ==
    /\ procs[p].pc = "idle"
    /\ findById(id) # 0
    /\ procs' = [procs EXCEPT ![p] =
                    [IdleCall EXCEPT !.pc = "read", !.op = "changeMerchantStatus",
                                     !.id = id,
                                     !.status = merchants[id].status,
                                     !.target = status]]
    /\ last' = Outcome("read", id, "ok", <<>>, <<>>)
    /\ UNCHANGED <<merchants, now, nextToken, focus, admin>>

\* the transition check on the row read, then await updateStatus(...)
statusCheckAndWrite(p) ==
    LET c == procs[p] IN
    /\ c.pc = "read"
    /\ c.op = "changeMerchantStatus"
    /\ IF ~canTransition(c.status, c.target)
       THEN /\ procs' = [procs EXCEPT ![p] = DoneCall(c, "MerchantInvalidStatus")]
            /\ last' = Outcome("changeMerchantStatus", c.id,
                               "MerchantInvalidStatus", <<>>, <<>>)
            /\ UNCHANGED merchants
       ELSE /\ merchants' = updateStatus(merchants, c.id, c.target,
                                         statusUpdateData(c.target, Undefined))
            /\ procs' = [procs EXCEPT ![p] = DoneCall(c, "ok")]
            /\ last' = Outcome("changeMerchantStatus", c.id, "ok", <<>>, <<>>)
    /\ UNCHANGED <<now, nextToken, focus, admin>>

\* await this.getMerchantById(id), in verifyKyc with decision "approved"; of
\* the row read the call uses kycStatus, emailVerified and status
kycRead(p, id) ==
    /\ procs[p].pc = "idle"
    /\ findById(id) # 0
    /\ procs' = [procs EXCEPT ![p] =
                    [IdleCall EXCEPT !.pc = "read", !.op = "verifyKyc", !.id = id,
                                     !.status = merchants[id].status,
                                     !.kycStatus = merchants[id].kycStatus,
                                     !.emailVerified = merchants[id].emailVerified,
                                     !.target = "ACTIVE"]]
    /\ last' = Outcome("read", id, "ok", <<>>, <<>>)
    /\ UNCHANGED <<merchants, now, nextToken, focus, admin>>

\* the KYC status check on the row read, then await updateKycStatus(APPROVED)
kycCheckAndApprove(p) ==
    LET c == procs[p] IN
    /\ c.pc = "read"
    /\ c.op = "verifyKyc"
    /\ IF ~kycDecidable(c.kycStatus)
       THEN /\ procs' = [procs EXCEPT ![p] = DoneCall(c, "KycInvalidStatus")]
            /\ last' = Outcome("verifyKyc", c.id, "KycInvalidStatus", <<>>, <<>>)
            /\ UNCHANGED merchants
       ELSE /\ merchants' = updateKycStatus(merchants, c.id, "APPROVED", << >>)
            /\ procs' = [procs EXCEPT ![p] =
                            IF activatesOnApproval(c)
                            THEN [c EXCEPT !.pc = "approved"]
                            ELSE DoneCall(c, "ok")]
            /\ last' = Outcome("verifyKyc", c.id, "approved", <<>>, <<>>)
    /\ UNCHANGED <<now, nextToken, focus, admin>>

\* await updateStatus(id, ACTIVE), decided on the row read
kycActivate(p) ==
    LET c == procs[p] IN
    /\ c.pc = "approved"
    /\ merchants' = updateStatus(merchants, c.id, "ACTIVE", << >>)
    /\ procs' = [procs EXCEPT ![p] = DoneCall(c, "ok")]
    /\ last' = Outcome("verifyKyc", c.id, "ok", <<>>, <<>>)
    /\ UNCHANGED <<now, nextToken, focus, admin>>

\* @Index(['email'], { unique: true }): whether the table refuses this row
uniqueViolation(store, data) ==
    \E i \in DOMAIN store : store[i].email = data.email

\* await this.merchantRepository.findByEmail(dto.email), in registerMerchant
registerRead(p, email) ==
    /\ procs[p].pc = "idle"
    /\ procs' = [procs EXCEPT ![p] =
                    [IdleCall EXCEPT !.pc = "read", !.op = "registerMerchant",
                                     !.email = email, !.id = findByEmail(email)]]
    /\ last' = Outcome("read", findByEmail(email), "ok", <<>>, <<>>)
    /\ UNCHANGED <<merchants, now, nextToken, focus, admin>>

\* the existence check on what was read, the token, then await create(...):
\* the insert of an email the table already holds is refused by the unique
\* index, and the error of the store reaches the caller as it is
registerCheckAndCreate(p, emailOk) ==
    LET c == procs[p]
        data == NewMerchant(c.email, generateVerificationToken,
                            now + VERIFICATION_TOKEN_EXPIRY_HOURS) IN
    /\ c.pc = "read"
    /\ c.op = "registerMerchant"
    /\ IF c.id # 0
       THEN /\ procs' = [procs EXCEPT ![p] =
                            [DoneCall(c, "MerchantAlreadyExists") EXCEPT
                                !.email = c.email]]
            /\ last' = Outcome("registerMerchant", c.id, "MerchantAlreadyExists",
                               c.email, <<>>)
            /\ UNCHANGED <<merchants, nextToken>>
       ELSE /\ nextToken < MaxTokens
            /\ nextToken' = nextToken + 1
            /\ IF uniqueViolation(merchants, data)
               THEN /\ procs' = [procs EXCEPT ![p] =
                                    [DoneCall(c, "QueryFailedError") EXCEPT
                                        !.email = c.email]]
                    /\ last' = Outcome("registerMerchant", 0, "QueryFailedError",
                                       c.email, <<>>)
                    /\ UNCHANGED merchants
               ELSE /\ Len(merchants) < MaxMerchants
                    /\ merchants' = create(merchants, data)
                    /\ procs' = [procs EXCEPT ![p] =
                                    [DoneCall(c, bestEffort(emailOk)) EXCEPT
                                        !.email = c.email]]
                    /\ last' = Outcome("registerMerchant", Len(merchants) + 1,
                                       bestEffort(emailOk),
                                       <<c.email, generateVerificationToken>>,
                                       Sent("verification", emailOk))
    /\ UNCHANGED <<now, focus, admin>>

\* await this.getMerchantById(id), in verifyBankAccount, the two checks on
\* the row read, and the call of the provider with the numbers read
bankRead(p, id) ==
    /\ procs[p].pc = "idle"
    /\ findById(id) # 0
    /\ LET m == merchants[id]
           c == [IdleCall EXCEPT !.op = "verifyBankAccount", !.id = id] IN
       procs' = [procs EXCEPT ![p] =
                    IF bankAccountAbsent(m)
                    THEN DoneCall(c, "BankAccountNotFound")
                    ELSE IF m.bankAccountStatus = "VERIFIED"
                    THEN DoneCall(c, "BankAccountAlreadyVerified")
                    ELSE [c EXCEPT !.pc = "called", !.bank = providerCall(m)]]
    /\ last' = Outcome("read", id, "ok", <<>>, <<>>)
    /\ UNCHANGED <<merchants, now, nextToken, focus, admin>>

\* the provider answers for the numbers it was sent; then await
\* updateBankAccountStatus(id, FAILED or VERIFIED)
bankAnswerAndWrite(p, providerOk) ==
    LET c == procs[p] IN
    /\ c.pc = "called"
    /\ merchants' = updateBankAccountStatus(merchants, c.id,
                                            IF providerOk THEN "VERIFIED" ELSE "FAILED")
    /\ procs' = [procs EXCEPT ![p] =
                    DoneCall(c, IF providerOk THEN "ok"
                                ELSE "BankAccountVerificationFailed")]
    /\ last' = Outcome("verifyBankAccount", c.id,
                       IF providerOk THEN "ok" ELSE "BankAccountVerificationFailed",
                       c.bank, <<>>)
    /\ UNCHANGED <<now, nextToken, focus, admin>>

\* the rows of a find, in the order of their ids
RECURSIVE idsInOrder(_)
idsInOrder(S) ==
    IF S = {} THEN <<>>
    ELSE LET i == CHOOSE x \in S : \A y \in S : x <= y IN
         <<i>> \o idsInOrder(S \ {i})

\* await this.merchantRepository.findExpiredVerificationTokens(), in
\* cleanupExpiredTokens: the job holds the rows that were expired at the read
cleanupRead(p) ==
    /\ procs[p].pc = "idle"
    /\ LET c == [IdleCall EXCEPT !.op = "cleanupExpiredTokens"] IN
       procs' = [procs EXCEPT ![p] =
                    IF findExpiredVerificationTokens = {}
                    THEN DoneCall(c, "ok")
                    ELSE [c EXCEPT !.pc = "clearing",
                                   !.pending = idsInOrder(findExpiredVerificationTokens)]]
    /\ last' = Outcome("read", 0, "ok", findExpiredVerificationTokens, <<>>)
    /\ UNCHANGED <<merchants, now, nextToken, focus, admin>>

\* one turn of the loop: await update(merchant.id, {token and expiry
\* undefined}) for the next row of the list read, whatever the row holds now
cleanupClear(p) ==
    LET c == procs[p] IN
    /\ c.pc = "clearing"
    /\ merchants' = update(merchants, Head(c.pending),
                           [emailVerificationToken |-> NoToken,
                            emailVerificationExpiresAt |-> NoTime])
    /\ procs' = [procs EXCEPT ![p] =
                    IF Tail(c.pending) = <<>>
                    THEN DoneCall(c, "ok")
                    ELSE [c EXCEPT !.pending = Tail(c.pending)]]
    /\ last' = Outcome("cleanupExpiredTokens", Head(c.pending), "ok", <<>>, <<>>)
    /\ UNCHANGED <<now, nextToken, focus, admin>>

\* the caller takes the outcome; the slot is free for another call
callReturn(p) ==
    /\ procs[p].pc = "done"
    /\ procs' = [procs EXCEPT ![p] = IdleCall]
    /\ last' = Outcome("return", 0, "ok", <<>>, <<>>)
    /\ UNCHANGED <<merchants, now, nextToken, focus, admin>>

----------------------------------------------------------------------------
(* AdminAuthService: login, refresh, logout.  The users are a fixed table of *)
(* the store; admin holds the session rows, the login attempt rows (a bag:   *)
(* only their number per email, time and outcome is ever read), the number   *)
(* of refresh tokens signed and the configured access token lifetime.        *)

MaxSessions == 2
MaxAttempts == 6
LockoutWindowHours == 12
SessionTtlHours == 24

MAX_FAILED_ATTEMPTS == 5

AdminRoles == {"ADMIN", "SUPPORT_ADMIN"}

\* the user table: an admin, a support admin, a plain user, a deactivated admin
Users ==
    <<[id |-> 1, email |-> "admin", role |-> "ADMIN", isActive |-> TRUE],
      [id |-> 2, email |-> "support", role |-> "SUPPORT_ADMIN", isActive |-> TRUE],
      [id |-> 3, email |-> "user", role |-> "USER", isActive |-> TRUE],
      [id |-> 4, email |-> "gone", role |-> "ADMIN", isActive |-> FALSE]>>

AdminEmailInputs == {"admin", "support", "user", "gone", "nobody"}

\* userRepository.findOne({ where: { email } }): the user's id, 0 if none
findUser(email) ==
    IF \E i \in DOMAIN Users : Users[i].email = email
    THEN CHOOSE i \in DOMAIN Users : Users[i].email = email
    ELSE 0

\* configService.get of the access token lifetime: digits and a unit
ExpiresInInputs == {<<"2", "h">>, <<"1", "5", "m">>}

DigitValue(c) ==
    CASE c = "0" -> 0 [] c = "1" -> 1 [] c = "2" -> 2 [] c = "3" -> 3
      [] c = "4" -> 4 [] c = "5" -> 5 [] c = "6" -> 6 [] c = "7" -> 7
      [] c = "8" -> 8 [] c = "9" -> 9

RECURSIVE ParseInt(_)
ParseInt(s) ==
    IF s = <<>> THEN 0
    ELSE 10 * ParseInt(SubSeq(s, 1, Len(s) - 1)) + DigitValue(s[Len(s)])

UnitSeconds(u) ==
    CASE u = "s" -> 1 [] u = "m" -> 60 [] u = "h" -> 3600 [] u = "d" -> 86400

\* the lifetime with every unit read as minutes
parseExpiresInMinutes(s) == ParseInt(SubSeq(s, 1, Len(s) - 1)) * 60

\* the lifetime in seconds: "2h" is 7200
parseExpiresIn(s) ==
    ParseInt(SubSeq(s, 1, Len(s) - 1)) * UnitSeconds(s[Len(s)])

NoAdmin == [sessions |-> <<>>, attempts |-> EmptyBag, signed |-> 0,
            expiresIn |-> <<"2", "h">>]

RECURSIVE SumOver(_, _)
SumOver(S, b) ==
    IF S = {} THEN 0
    ELSE LET x == CHOOSE x \in S : TRUE IN b[x] + SumOver(S \ {x}, b)

\* adminLoginAttemptRepository.count: the failed attempts for the email
\* inside the lockout window
recentFailedAttempts(email) ==
    SumOver({a \in BagToSet(admin.attempts) :
                 /\ a.email = email
                 /\ ~a.successful
                 /\ a.at > now - LockoutWindowHours}, admin.attempts)

\* a lockout that needs one failure more
isLockedAfterSix(email) == recentFailedAttempts(email) > MAX_FAILED_ATTEMPTS

\* the account is locked
isLocked(email) == recentFailedAttempts(email) >= MAX_FAILED_ATTEMPTS

\* adminLoginAttemptRepository.save of one more attempt
recordAttempt(email, successful) ==
    admin.attempts (+)
        SetToBag({[email |-> email, at |-> now, successful |-> successful]})

\* jwtService.sign: the refresh token is new at every login, the access token
\* names the session it is bound to
signRefresh(userId) == [type |-> "admin_refresh", sub |-> userId,
                        n |-> admin.signed + 1]
signAccess(userId, refreshToken) ==
    [type |-> "admin_access", sub |-> userId, session |-> refreshToken.n,
     iat |-> now]

adminOf(u) == [id |-> u.id, email |-> u.email, role |-> u.role]

\* admission without the check of the role
admittedAnyRole(email, passwordOk) == findUser(email) # 0 /\ passwordOk

\* a login that is admitted
admitted(email, passwordOk) ==
    /\ findUser(email) # 0
    /\ Users[findUser(email)].role \in AdminRoles
    /\ passwordOk

login(email, passwordOk) ==
    /\ IF isLocked(email)
       THEN /\ last' = Outcome("login", 0, "Forbidden", <<email, passwordOk>>,
                               <<>>)
            /\ UNCHANGED admin
       ELSE IF ~admitted(email, passwordOk)
       THEN /\ BagCardinality(admin.attempts) < MaxAttempts
            /\ admin' = [admin EXCEPT !.attempts = recordAttempt(email, FALSE)]
            /\ last' = Outcome("login", findUser(email), "Unauthorized",
                               <<email, passwordOk>>, <<>>)
       ELSE LET u == Users[findUser(email)]
                refresh_token == signRefresh(u.id) IN
            /\ BagCardinality(admin.attempts) < MaxAttempts
            /\ Len(admin.sessions) < MaxSessions
            /\ admin' = [admin EXCEPT
                            !.attempts = recordAttempt(email, TRUE),
                            !.signed = @ + 1,
                            !.sessions =
                                Append(@, [userId |-> u.id,
                                           refreshToken |-> refresh_token,
                                           isActive |-> TRUE,
                                           expiresAt |-> now + SessionTtlHours])]
            /\ last' = Outcome("login", u.id, "ok",
                               [access_token |-> signAccess(u.id, refresh_token),
                                refresh_token |-> refresh_token,
                                expires_in |-> parseExpiresIn(admin.expiresIn),
                                admin |-> adminOf(u)], <<>>)
    /\ UNCHANGED <<merchants, now, nextToken, procs, focus>>

\* the tokens a caller can present: every refresh token that can be signed,
\* an access token, a refresh token of the merchant-facing API
RefreshInputs ==
    {[type |-> "admin_refresh", sub |-> u, n |-> k] :
        u \in DOMAIN Users, k \in 1..MaxSessions}
    \cup {[type |-> "regular_refresh", sub |-> 1, n |-> 1]}

\* adminSessionRepository.findOne({ refreshToken, isActive: true }): the index
\* of the session, 0 if none
findActiveSession(token) ==
    IF \E i \in DOMAIN admin.sessions :
           admin.sessions[i].refreshToken = token /\ admin.sessions[i].isActive
    THEN CHOOSE i \in DOMAIN admin.sessions :
           admin.sessions[i].refreshToken = token /\ admin.sessions[i].isActive
    ELSE 0

\* a session check that does not look at expiresAt
sessionMissing(i) == i = 0

\* the session cannot be used: missing, or its expiresAt has passed
sessionUnusable(i) == i = 0 \/ admin.sessions[i].expiresAt < now

refresh(token) ==
    LET i == findActiveSession(token) IN
    /\ IF token.type # "admin_refresh"
       THEN last' = Outcome("refresh", 0, "Unauthorized", <<>>, <<>>)
       ELSE IF sessionUnusable(i)
       THEN last' = Outcome("refresh", 0, "Unauthorized", <<>>, <<>>)
       ELSE IF ~Users[admin.sessions[i].userId].isActive
       THEN last' = Outcome("refresh", admin.sessions[i].userId, "Unauthorized",
                            <<>>, <<>>)
       ELSE LET u == Users[admin.sessions[i].userId] IN
            last' = Outcome("refresh", u.id, "ok",
                            [access_token |-> signAccess(u.id, token),
                             expires_in |-> parseExpiresIn(admin.expiresIn),
                             admin |-> adminOf(u)], <<>>)
    /\ UNCHANGED <<merchants, now, nextToken, procs, focus, admin>>

\* an update that matches the sessions by the user of the token
deactivatedByUser(sessions, token) ==
    [i \in DOMAIN sessions |->
        IF sessions[i].userId = token.sub /\ sessions[i].isActive
        THEN [sessions[i] EXCEPT !.isActive = FALSE]
        ELSE sessions[i]]

\* adminSessionRepository.update({ refreshToken, isActive: true },
\*                               { isActive: false })
deactivated(sessions, token) ==
    [i \in DOMAIN sessions |->
        IF sessions[i].refreshToken = token /\ sessions[i].isActive
        THEN [sessions[i] EXCEPT !.isActive = FALSE]
        ELSE sessions[i]]

logout(token) ==
    /\ admin' = [admin EXCEPT !.sessions = deactivated(@, token)]
    /\ last' = Outcome("logout", 0, "ok", <<>>, <<>>)
    /\ UNCHANGED <<merchants, now, nextToken, procs, focus>>

----------------------------------------------------------------------------
Tick ==
    /\ now + TickHours <= MaxTime
    /\ now' = now + TickHours
    /\ last' = Outcome("tick", 0, "ok", <<>>, <<>>)
    /\ UNCHANGED <<merchants, nextToken, procs, focus, admin>>

Init ==
    /\ focus = "lifecycle"
    /\ merchants = <<>>
    /\ now = 0
    /\ nextToken = 0
    /\ last = Outcome("init", 0, "ok", <<>>, <<>>)
    /\ procs = [p \in Procs |-> IdleProc]
    /\ admin = NoAdmin

\* registration of the one merchant whose life a specification follows
RegisterFirst ==
    \E e \in EmailInputs, ok \in BOOLEAN :
        merchants = <<>> /\ registerMerchant(e, ok)

\* any registration, up to MaxMerchants merchants
Register ==
    \E e \in EmailInputs, ok \in BOOLEAN : registerMerchant(e, ok)

ChangeStatus ==
    \/ \E id \in IdInputs, s \in MerchantStatus, r \in Reasons, ok \in BOOLEAN :
          changeMerchantStatus(id, s, r, ok)
    \/ \E id \in IdInputs, ok \in BOOLEAN : activateMerchant(id, ok)
    \/ \E id \in IdInputs, r \in Reasons, ok \in BOOLEAN : suspendMerchant(id, r, ok)
    \/ \E id \in IdInputs, r \in Reasons, ok \in BOOLEAN :
          closeMerchantAccount(id, r, ok)

Kyc ==
    \/ \E id \in IdInputs, d \in DocInputs, ok \in BOOLEAN :
          submitKycDocuments(id, d, ok)
    \/ \E id \in IdInputs, d \in Decisions, r \in Reasons, ok \in BOOLEAN :
          verifyKyc(id, d, r, ok)

VerifyEmail == \E t \in TokenInputs, ok \in BOOLEAN : verifyEmail(t, ok)

Resend == \E e \in EmailInputs, ok \in BOOLEAN : resendVerificationEmail(e, ok)

\* the status and KYC state machine of one merchant, calls run one at a time
Next ==
    \/ RegisterFirst
    \/ VerifyEmail
    \/ Kyc
    \/ ChangeStatus

Spec == Init /\ [][Next]_vars

\* registration and email verification of up to MaxMerchants merchants
NextEmail ==
    \/ Register
    \/ VerifyEmail
    \/ Resend
    \/ cleanupExpiredTokens
    \/ Tick

SpecEmail == Init /\ [][NextEmail]_vars

Quota ==
    \/ \E id \in IdInputs : checkAndIncrementApiQuota(id)
    \/ \E id \in IdInputs, l \in QuotaLimits : updateApiQuota(id, l)
    \/ resetApiQuotas

\* quota accounting, calls run one at a time
NextQuota ==
    \/ Register
    \/ Quota

SpecQuota == Init /\ [][NextQuota]_vars

\* quota accounting with checkAndIncrementApiQuota calls interleaved
NextQuotaConc ==
    \/ RegisterFirst
    \/ \E id \in IdInputs, l \in QuotaLimits : updateApiQuota(id, l)
    \/ resetApiQuotas
    \/ \E p \in Procs, id \in IdInputs : quotaRead(p, id)
    \/ \E p \in Procs : quotaCheckAndIncrement(p)
    \/ \E p \in Procs : quotaReturn(p)

SpecQuotaConc == Init /\ [][NextQuotaConc]_vars

\* currency settings of one merchant across its statuses
NextCurrency ==
    \/ RegisterFirst
    \/ \E id \in IdInputs, s \in CurrencyLists, d \in Currencies :
          updateCurrencySettings(id, s, d)
    \/ \E id \in IdInputs, s \in MerchantStatus, ok \in BOOLEAN :
          changeMerchantStatus(id, s, Undefined, ok)

SpecCurrency == Init /\ [][NextCurrency]_vars

Profile ==
    \/ \E id \in IdInputs, n \in NameInputs : updateProfile(id, n)
    \/ \E id \in IdInputs, n \in RegNumberInputs : updateBusinessDetails(id, n)
    \/ \E id \in IdInputs, c \in CountryInputs : updateAddress(id, c)

Bank ==
    \/ \E id \in IdInputs, b \in BankInputs : updateBankAccount(id, b)
    \/ \E id \in IdInputs, pok \in BOOLEAN, ok \in BOOLEAN :
          verifyBankAccount(id, pok, ok)

Preferences ==
    \/ \E id \in IdInputs, f \in FrequencyInputs :
          updateSettlementPreferences(id, f)
    \/ \E id \in IdInputs, n \in NotificationInputs :
          updateNotificationPreferences(id, n)
    \/ \E id \in IdInputs, s \in CurrencyLists, d \in Currencies :
          updateCurrencySettings(id, s, d)

Groups == {"email", "profile", "bank", "preferences", "quota"}

InitAll ==
    /\ focus \in Groups
    /\ merchants = <<>>
    /\ now = 0
    /\ nextToken = 0
    /\ last = Outcome("init", 0, "ok", <<>>, <<>>)
    /\ procs = [p \in Procs |-> IdleProc]
    /\ admin = NoAdmin

\* every service call and scheduled job on one merchant, run one at a time.
\* The groups write disjoint fields and read, besides their own fields, only
\* the status; a run mixes the lifecycle calls with the calls of one group, so
\* that every call is made in every state of the lifecycle.
NextAll ==
    \/ RegisterFirst
    \/ VerifyEmail
    \/ Kyc
    \/ ChangeStatus
    \/ focus = "email" /\ (Resend \/ cleanupExpiredTokens \/ Tick)
    \/ focus = "profile" /\ Profile
    \/ focus = "bank" /\ Bank
    \/ focus = "preferences" /\ Preferences
    \/ focus = "quota" /\ Quota

SpecAll == InitAll /\ [][NextAll]_vars

\* the rows the store can hand to the KYC calls: the store is shared and
\* outlives the service, and the code itself tests for IN_REVIEW, a value no
\* call of the service writes.  One merchant, in any status, KYC status and
\* verification state.
InitKyc ==
    /\ focus = "lifecycle"
    /\ \E s \in MerchantStatus, k \in KycStatus, v \in BOOLEAN :
          merchants =
              create(<<>>,
                     Merge(NewMerchant(<<"j", "@", "x">>,
                                       IF v THEN NoToken ELSE 1,
                                       IF v THEN NoTime
                                       ELSE VERIFICATION_TOKEN_EXPIRY_HOURS),
                           [status |-> s, kycStatus |-> k, emailVerified |-> v]))
    /\ now = 0
    /\ nextToken = 1
    /\ last = Outcome("init", 0, "ok", <<>>, <<>>)
    /\ procs = [p \in Procs |-> IdleProc]
    /\ admin = NoAdmin

\* the KYC calls on a merchant row in any state
NextKyc ==
    \/ VerifyEmail
    \/ Kyc

SpecKyc == InitKyc /\ [][NextKyc]_vars

\* the admin service starts with the configured access token lifetime
InitAdmin ==
    /\ focus = "lifecycle"
    /\ merchants = <<>>
    /\ now = 0
    /\ nextToken = 0
    /\ last = Outcome("init", 0, "ok", <<>>, <<>>)
    /\ procs = [p \in Procs |-> IdleProc]
    /\ \E e \in ExpiresInInputs : admin = [NoAdmin EXCEPT !.expiresIn = e]

\* the emails of a run that follows the lockout: an admin and no user
LockoutEmailInputs == {"admin", "nobody"}

\* logins, right and wrong, for two emails as time passes
NextLockout ==
    \/ \E e \in LockoutEmailInputs, ok \in BOOLEAN : login(e, ok)
    \/ Tick

SpecLockout == InitAdmin /\ [][NextLockout]_vars

\* the logins of a run that follows the sessions: too few to lock an email
MaxSessionLogins == 2

\* sessions from login to logout and expiry, calls run one at a time
NextSession ==
    \/ \E e \in AdminEmailInputs, ok \in BOOLEAN :
          BagCardinality(admin.attempts) < MaxSessionLogins /\ login(e, ok)
    \/ \E t \in RefreshInputs : refresh(t)
    \/ \E t \in RefreshInputs : logout(t)
    \/ Tick

SpecSession == InitAdmin /\ [][NextSession]_vars

\* the bank account of one merchant across its statuses
NextBank ==
    \/ RegisterFirst
    \/ Bank
    \/ \E id \in IdInputs, s \in MerchantStatus, ok \in BOOLEAN :
          changeMerchantStatus(id, s, Undefined, ok)

SpecBank == Init /\ [][NextBank]_vars

\* a bank account too short and a well-formed one
GateBankInputs ==
    {BankDto(<<"1", "2">>, <<>>, <<>>, <<>>),
     BankDto(Rep("1", 10), RoutingOk, <<>>, <<>>)}

\* the updates of profile, bank account and preferences of one merchant across
\* its statuses
NextGate ==
    \/ RegisterFirst
    \/ Profile
    \/ \E id \in IdInputs, b \in GateBankInputs : updateBankAccount(id, b)
    \/ \E id \in IdInputs, f \in FrequencyInputs :
          updateSettlementPreferences(id, f)
    \/ \E id \in IdInputs, n \in NotificationInputs :
          updateNotificationPreferences(id, n)
    \/ \E id \in IdInputs : updateCurrencySettings(id, <<"GBP">>, "EUR")
    \/ \E id \in IdInputs, s \in MerchantStatus, ok \in BOOLEAN :
          changeMerchantStatus(id, s, Undefined, ok)

SpecGate == Init /\ [][NextGate]_vars

InitConc ==
    /\ focus = "lifecycle"
    /\ merchants = <<>>
    /\ now = 0
    /\ nextToken = 0
    /\ last = Outcome("init", 0, "ok", <<>>, <<>>)
    /\ procs = [p \in Procs |-> IdleCall]
    /\ admin = NoAdmin

\* one merchant registers, verifies its email and submits its documents; the
\* status changes and KYC approvals on it are interleaved
NextStatusConc ==
    \/ RegisterFirst
    \/ VerifyEmail
    \/ \E id \in IdInputs :
          submitKycDocuments(id, <<"government_id", "proof_of_address">>, TRUE)
    \/ \E p \in Procs, id \in IdInputs, s \in MerchantStatus : statusRead(p, id, s)
    \/ \E p \in Procs : statusCheckAndWrite(p)
    \/ \E p \in Procs, id \in IdInputs : kycRead(p, id)
    \/ \E p \in Procs : kycCheckAndApprove(p)
    \/ \E p \in Procs : kycActivate(p)
    \/ \E p \in Procs : callReturn(p)

SpecStatusConc == InitConc /\ [][NextStatusConc]_vars

\* registrations interleaved
NextRegisterConc ==
    \/ \E p \in Procs, e \in EmailInputs : registerRead(p, e)
    \/ \E p \in Procs, ok \in BOOLEAN : registerCheckAndCreate(p, ok)
    \/ \E p \in Procs : callReturn(p)

SpecRegisterConc == InitConc /\ [][NextRegisterConc]_vars

\* the rows the store can hand to verifyEmail: one merchant in any status,
\* verified or not, holding token 1 with an expiry or without one
InitVerify ==
    /\ focus = "lifecycle"
    /\ \E s \in MerchantStatus, v \in BOOLEAN,
          x \in {NoTime, VERIFICATION_TOKEN_EXPIRY_HOURS} :
          merchants =
              create(<<>>,
                     Merge(NewMerchant(<<"j", "@", "x">>, 1, x),
                           [status |-> s, emailVerified |-> v]))
    /\ now = 0
    /\ nextToken = 1
    /\ last = Outcome("init", 0, "ok", <<>>, <<>>)
    /\ procs = [p \in Procs |-> IdleProc]
    /\ admin = NoAdmin

\* verification and renewal of the token as time passes
NextVerify ==
    \/ VerifyEmail
    \/ Resend
    \/ Tick

SpecVerify == InitVerify /\ [][NextVerify]_vars

\* the status changes of one merchant, by every method, as time passes
NextStatus ==
    \/ RegisterFirst
    \/ ChangeStatus
    \/ Tick

SpecStatus == Init /\ [][NextStatus]_vars

\* searches of every page and limit, whatever the store reports
NextSearch ==
    \E p \in PageInputs, l \in LimitInputs, t \in TotalInputs :
        searchMerchants(p, l, t)

SpecSearch == Init /\ [][NextSearch]_vars

\* as InitAll, and also without a further group: these runs keep the outcomes
InitEvery ==
    /\ focus \in Groups \cup {"lifecycle"}
    /\ merchants = <<>>
    /\ now = 0
    /\ nextToken = 0
    /\ last = Outcome("init", 0, "ok", <<>>, <<>>)
    /\ procs = [p \in Procs |-> IdleProc]
    /\ admin = NoAdmin

\* every service call on one merchant; the lifecycle calls also with their
\* outcomes
SpecEvery == InitEvery /\ [][NextAll]_vars

\* a bank account too short and two well-formed ones
ConcBankInputs ==
    GateBankInputs \cup {BankDto(<<"1", "2", "3", "4">>, RoutingOk, <<>>, <<>>)}

\* bank account updates of one merchant interleaved with its verifications
NextBankConc ==
    \/ RegisterFirst
    \/ \E id \in IdInputs, b \in ConcBankInputs : updateBankAccount(id, b)
    \/ \E p \in Procs, id \in IdInputs : bankRead(p, id)
    \/ \E p \in Procs, ok \in BOOLEAN : bankAnswerAndWrite(p, ok)
    \/ \E p \in Procs : callReturn(p)

SpecBankConc == InitConc /\ [][NextBankConc]_vars

\* the hourly cleanup job interleaved with registration, verification and
\* resending
NextCleanupConc ==
    \/ Register
    \/ VerifyEmail
    \/ Resend
    \/ Tick
    \/ \E p \in Procs : cleanupRead(p)
    \/ \E p \in Procs : cleanupClear(p)
    \/ \E p \in Procs : callReturn(p)

SpecCleanupConc == InitConc /\ [][NextCleanupConc]_vars

\* quota accounting of one merchant across its statuses
NextQuotaStatus ==
    \/ RegisterFirst
    \/ Quota
    \/ \E id \in IdInputs, s \in MerchantStatus, ok \in BOOLEAN :
          changeMerchantStatus(id, s, Undefined, ok)

SpecQuotaStatus == Init /\ [][NextQuotaStatus]_vars

----------------------------------------------------------------------------
(* Properties *)

\* the merchants other than id, and the merchant count, are as before
OthersUnchanged(id) ==
    /\ Len(merchants') = Len(merchants)
    /\ \A j \in Ids : j # id => merchants'[j] = merchants[j]

\* C1: for every merchant, current status and requested status,
\* changeMerchantStatus succeeds and sets the status to the requested one
\* exactly when the requested status is in the allowed set of the current one;
\* every other request (one for the current status included) fails with
\* MerchantInvalidStatus(current, requested) and changes nothing.
C1_StatusFollowsTable ==
    [][last'.op = "changeMerchantStatus" =>
       \A id \in Ids, s \in MerchantStatus, r \in Reasons, ok \in BOOLEAN :
          changeMerchantStatus(id, s, r, ok) =>
              LET current == merchants[id].status IN
              IF s \in VALID_STATUS_TRANSITIONS[current]
              THEN /\ last'.result = "ok"
                   /\ merchants'[id].status = s
                   /\ OthersUnchanged(id)
              ELSE /\ last'.result = "MerchantInvalidStatus"
                   /\ last'.detail = <<current, s>>
                   /\ merchants' = merchants]_vars

\* a suspended merchant was asked to be suspended again and the call failed
C1_Witness ==
    /\ last.op = "changeMerchantStatus"
    /\ last.result = "MerchantInvalidStatus"
    /\ last.detail = <<"SUSPENDED", "SUSPENDED">>
    /\ merchants[last.id].status = "SUSPENDED"

\* C2: once the status of a merchant is CLOSED, no call of the service and
\* no scheduled job changes it.
C2_ClosedIsTerminal ==
    [][\A id \in Ids :
          merchants[id].status = "CLOSED" => merchants'[id].status = "CLOSED"]_vars

\* a merchant closed at hour 0 holds a token issued at hour 12: a call went
\* through after the closure
C2_Witness ==
    \E id \in Ids :
        /\ merchants[id].status = "CLOSED"
        /\ merchants[id].closedAt = 0
        /\ merchants[id].emailVerificationExpiresAt =
               TickHours + VERIFICATION_TOKEN_EXPIRY_HOURS

\* C3: two checkAndIncrementApiQuota calls for one merchant that were between
\* read and increment together, both having read used = limit - 1, end with
\* exactly one success and one ApiQuotaExceeded, and with used <= limit.  The
\* case is the one in which only these two calls moved the counters.
C3_ExactlyOneSucceeds ==
    \A p, q \in Procs :
        LET a == procs[p]
            b == procs[q]
            succeeded == {c \in {p, q} : procs[c].result = "ok"} IN
        (/\ p # q
         /\ a.pc = "done" /\ b.pc = "done"
         /\ a.id = b.id
         /\ q \in a.overlaps
         /\ a.used = a.limit - 1
         /\ b.used = a.used /\ b.limit = a.limit
         /\ merchants[a.id].apiQuotaLimit = a.limit
         /\ merchants[a.id].apiQuotaUsed = a.used + Cardinality(succeeded))
        => /\ Cardinality(succeeded) = 1
           /\ \E c \in {p, q} : procs[c].result = "ApiQuotaExceeded"
           /\ merchants[a.id].apiQuotaUsed <= merchants[a.id].apiQuotaLimit

\* C4: with calls run one at a time, checkAndIncrementApiQuota on a merchant
\* with used >= limit fails with ApiQuotaExceeded(limit, resetAt) and changes
\* nothing; otherwise it succeeds, adds exactly one to apiQuotaUsed of that
\* merchant only, and leaves used <= limit.
C4_QuotaSequential ==
    [][last'.op = "checkAndIncrementApiQuota" =>
       \A id \in Ids :
          checkAndIncrementApiQuota(id) =>
              LET m == merchants[id] IN
              IF m.apiQuotaUsed >= m.apiQuotaLimit
              THEN /\ last'.result = "ApiQuotaExceeded"
                   /\ last'.detail = <<m.apiQuotaLimit, m.apiQuotaResetAt>>
                   /\ merchants' = merchants
              ELSE /\ last'.result = "ok"
                   /\ merchants'[id].apiQuotaUsed = m.apiQuotaUsed + 1
                   /\ merchants'[id].apiQuotaUsed <= merchants'[id].apiQuotaLimit
                   /\ merchants'[id].apiQuotaLimit = m.apiQuotaLimit
                   /\ OthersUnchanged(id)]_vars

\* a merchant with limit 2 used its two units and the next call was refused
C4_Witness ==
    /\ last.op = "checkAndIncrementApiQuota"
    /\ last.result = "ApiQuotaExceeded"
    /\ last.detail = <<MaxQuotaLimit, NoTime>>
    /\ merchants[last.id].apiQuotaUsed = MaxQuotaLimit
    /\ merchants[last.id].apiQuotaLimit = MaxQuotaLimit

Holders(t) == {i \in Ids : merchants[i].emailVerificationToken = t}

\* token t was issued and is consumed, replaced or purged (no merchant holds
\* it), or its holder is verified, or its expiry has passed
Spent(t) ==
    /\ t <= nextToken
    /\ \/ Holders(t) = {}
       \/ \E i \in Holders(t) :
             \/ merchants[i].emailVerified
             \/ merchants[i].emailVerificationExpiresAt < now

\* C6: a verification token that is consumed or past its expiry stays so
\* through every later call and job, and verifyEmail with it fails with
\* TokenInvalid, EmailAlreadyVerified or TokenExpired and changes nothing.
C6_SpentTokenNeverVerifies ==
    [][\A t \in TokenInputs :
          Spent(t) =>
              /\ Spent(t)'
              /\ last'.op = "verifyEmail" =>
                 \A ok \in BOOLEAN :
                    verifyEmail(t, ok) =>
                        /\ last'.result \in {"MerchantVerificationTokenInvalid",
                                             "MerchantEmailAlreadyVerified",
                                             "MerchantVerificationTokenExpired"}
                        /\ merchants' = merchants]_vars

\* a token issued at hour 0 was presented after hour 24 and refused as expired
C6_Witness ==
    /\ last.op = "verifyEmail"
    /\ last.result = "MerchantVerificationTokenExpired"
    /\ merchants[last.id].emailVerificationExpiresAt = VERIFICATION_TOKEN_EXPIRY_HOURS
    /\ now > VERIFICATION_TOKEN_EXPIRY_HOURS
    /\ ~merchants[last.id].emailVerified

\* C7: verifyKyc with decision "approved" on a merchant whose kycStatus is
\* PENDING or IN_REVIEW sets kycStatus to APPROVED; a merchant with status
\* PENDING becomes ACTIVE if its email is verified and stays PENDING if not.
C7_ApprovalActivates ==
    [][last'.op = "verifyKyc" =>
       \A id \in Ids, r \in Reasons, ok \in BOOLEAN :
          (/\ merchants[id].kycStatus \in {"PENDING", "IN_REVIEW"}
           /\ verifyKyc(id, "approved", r, ok)) =>
              /\ last'.result = "ok"
              /\ merchants'[id].kycStatus = "APPROVED"
              /\ (merchants[id].status = "PENDING" /\ merchants[id].emailVerified)
                    => merchants'[id].status = "ACTIVE"
              /\ (merchants[id].status = "PENDING" /\ ~merchants[id].emailVerified)
                    => merchants'[id].status = "PENDING"]_vars

\* the KYC of an unverified PENDING merchant was approved and it is still
\* PENDING
C7_Witness ==
    /\ last.op = "verifyKyc"
    /\ last.result = "ok"
    /\ last.detail[1] = "approved"
    /\ merchants[last.id].kycStatus = "APPROVED"
    /\ merchants[last.id].status = "PENDING"
    /\ ~merchants[last.id].emailVerified

\* C8: after every call the default currency of every merchant is one of its
\* supported currencies.  updateCurrencySettings on a SUSPENDED or CLOSED
\* merchant fails and changes nothing; on any other merchant it succeeds for
\* every pair (list, default) and stores the default and a list that holds
\* the supplied currencies and the default.
C8_DefaultCurrencySupported ==
    [][/\ \A i \in 1..Len(merchants') :
             includes(merchants'[i].supportedCurrencies,
                      merchants'[i].defaultCurrency)
       /\ last'.op = "registerMerchant" /\ last'.result = "ok" =>
             /\ merchants'[last'.id].supportedCurrencies = <<"USD">>
             /\ merchants'[last'.id].defaultCurrency = "USD"
       /\ last'.op = "updateCurrencySettings" =>
          \A id \in Ids, s \in CurrencyLists, d \in Currencies :
             updateCurrencySettings(id, s, d) =>
                 IF merchants[id].status \in {"SUSPENDED", "CLOSED"}
                 THEN /\ last'.result \in {"MerchantSuspended", "MerchantClosed"}
                      /\ merchants' = merchants
                 ELSE /\ last'.result = "ok"
                      /\ merchants'[id].defaultCurrency = d
                      /\ Range(merchants'[id].supportedCurrencies) =
                             Range(s) \cup {d}]_vars

\* the list [GBP] was supplied with default EUR and EUR was added to it
C8_Witness ==
    \E id \in Ids :
        /\ merchants[id].supportedCurrencies = <<"GBP", "EUR">>
        /\ merchants[id].defaultCurrency = "EUR"

\* C9: each stage of the happy path gives the stated state: a registration
\* gives status PENDING, kycStatus NOT_STARTED and a token; verifyEmail with
\* that token gives emailVerified; submitKycDocuments with government_id and
\* proof_of_address then gives kycStatus PENDING; verifyKyc("approved") then
\* gives kycStatus APPROVED and status ACTIVE.
C9_HappyPath ==
    [][/\ last'.op = "registerMerchant" /\ last'.result = "ok" =>
             LET m == merchants'[last'.id] IN
             /\ m.status = "PENDING"
             /\ m.kycStatus = "NOT_STARTED"
             /\ ~m.emailVerified
             /\ m.emailVerificationToken # NoToken
             /\ m.emailVerificationToken = last'.detail[2]
       /\ last'.op = "verifyEmail" =>
          \A id \in Ids, ok \in BOOLEAN :
             (/\ merchants[id].status = "PENDING"
              /\ merchants[id].kycStatus = "NOT_STARTED"
              /\ ~merchants[id].emailVerified
              /\ verifyEmail(merchants[id].emailVerificationToken, ok)) =>
                 /\ last'.result = "ok"
                 /\ merchants'[id].emailVerified
                 /\ merchants'[id].status = "PENDING"
                 /\ merchants'[id].kycStatus = "NOT_STARTED"
       /\ last'.op = "submitKycDocuments" =>
          \A id \in Ids, ok \in BOOLEAN :
             (/\ merchants[id].status = "PENDING"
              /\ merchants[id].kycStatus = "NOT_STARTED"
              /\ merchants[id].emailVerified
              /\ submitKycDocuments(id, <<"government_id", "proof_of_address">>,
                                    ok)) =>
                 /\ last'.result = "ok"
                 /\ merchants'[id].kycStatus = "PENDING"
                 /\ merchants'[id].status = "PENDING"
                 /\ merchants'[id].emailVerified
       /\ last'.op = "verifyKyc" =>
          \A id \in Ids, r \in Reasons, ok \in BOOLEAN :
             (/\ merchants[id].status = "PENDING"
              /\ merchants[id].kycStatus = "PENDING"
              /\ merchants[id].emailVerified
              /\ verifyKyc(id, "approved", r, ok)) =>
                 /\ last'.result = "ok"
                 /\ merchants'[id].kycStatus = "APPROVED"
                 /\ merchants'[id].status = "ACTIVE"]_vars

\* the end of the happy path: verified, documents of both required types on
\* file, KYC just approved, ACTIVE and never suspended or closed
C9_Witness ==
    /\ last.op = "verifyKyc"
    /\ last.result = "ok"
    /\ last.detail[1] = "approved"
    /\ merchants[last.id].status = "ACTIVE"
    /\ merchants[last.id].kycStatus = "APPROVED"
    /\ merchants[last.id].emailVerified
    /\ Len(merchants[last.id].kycDocuments) = 2
    /\ merchants[last.id].kycDocuments[1].type = "government_id"
    /\ merchants[last.id].kycDocuments[2].type = "proof_of_address"
    /\ merchants[last.id].suspensionReason = Undefined
    /\ merchants[last.id].closedAt = NoTime

\* C10: every change of the kycStatus of a merchant goes to a value in the
\* allowed set that VALID_KYC_TRANSITIONS gives for the value before.
C10_KycFollowsTable ==
    [][\A id \in Ids :
          merchants'[id].kycStatus # merchants[id].kycStatus =>
              merchants'[id].kycStatus \in
                  VALID_KYC_TRANSITIONS[merchants[id].kycStatus]]_vars

\* the failed login attempts recorded for the email in the lockout window
FailuresInWindow(email) ==
    LET at(t) == [email |-> email, at |-> t, successful |-> FALSE] IN
    SumOver({t \in 0..MaxTime : t > now - LockoutWindowHours /\ t <= now},
            [t \in 0..MaxTime |-> CopiesIn(at(t), admin.attempts)])

\* C11: when 5 failed login attempts are on record for an email inside the
\* lockout window, a login for that email fails with Forbidden, whether the
\* password is right or wrong and whether the user exists or not, and it
\* creates no session, signs no token and records nothing.
C11_LockoutBeforeCredentials ==
    [][last'.op = "login" =>
       \A e \in AdminEmailInputs, ok \in BOOLEAN :
          (FailuresInWindow(e) >= 5 /\ login(e, ok)) =>
              /\ last'.result = "Forbidden"
              /\ admin' = admin]_vars

\* the admin, five failures on record, was refused with the right password
C11_Witness ==
    /\ last.op = "login"
    /\ last.result = "Forbidden"
    /\ last.detail = <<"admin", TRUE>>
    /\ FailuresInWindow("admin") = 5
    /\ admin.sessions = <<>>

ActiveSessions(t) ==
    {i \in DOMAIN admin.sessions :
        admin.sessions[i].refreshToken = t /\ admin.sessions[i].isActive}

C14_LogoutIdempotent ==
    [][/\ last'.op = "logout" =>
          \A t \in RefreshInputs :
             logout(t) =>
                 /\ last'.result = "ok"
                 /\ Len(admin'.sessions) = Len(admin.sessions)
                 /\ \A i \in DOMAIN admin.sessions :
                       IF i \in ActiveSessions(t)
                       THEN admin'.sessions[i] =
                                [admin.sessions[i] EXCEPT !.isActive = FALSE]
                       ELSE admin'.sessions[i] = admin.sessions[i]
                 /\ admin'.attempts = admin.attempts
                 /\ ActiveSessions(t) = {} => admin' = admin
       /\ \A i \in DOMAIN admin.sessions :
             ~admin.sessions[i].isActive => ~admin'.sessions[i].isActive
       /\ last'.op = "refresh" =>
          \A t \in RefreshInputs :
             (ActiveSessions(t) = {} /\ refresh(t)) =>
                 last'.result = "Unauthorized"]_vars

\* the admin holds two sessions; a logout ended the first and left the second
C14_Witness ==
    /\ last.op = "logout"
    /\ Len(admin.sessions) = 2
    /\ admin.sessions[1].userId = admin.sessions[2].userId
    /\ ~admin.sessions[1].isActive
    /\ admin.sessions[2].isActive

C16_RegistrationSurvivesEmailFailure ==
    [][last'.op = "registerMerchant" =>
       \A e \in EmailInputs :
          (/\ registerMerchant(e, FALSE)
           /\ \A i \in Ids : toLowerCase(merchants[i].email) # toLowerCase(e)) =>
              LET n == Len(merchants') IN
              /\ last'.result = "ok"
              /\ last'.sent = <<>>
              /\ n = Len(merchants) + 1
              /\ last'.id = n
              /\ merchants'[n].id = n
              /\ merchants'[n].email = toLowerCase(e)
              /\ merchants'[n].status = "PENDING"
              /\ merchants'[n].emailVerificationToken = last'.detail[2]
              /\ merchants'[n].emailVerificationToken # NoToken
              /\ merchants'[n].emailVerificationExpiresAt =
                     now + VERIFICATION_TOKEN_EXPIRY_HOURS
              /\ \A j \in Ids : merchants'[j] = merchants[j]]_vars

\* a second merchant was registered, its email was not delivered, and it is
\* stored
C16_Witness ==
    /\ last.op = "registerMerchant"
    /\ last.result = "ok"
    /\ last.sent = <<>>
    /\ last.id = 2
    /\ Len(merchants) = 2
    /\ merchants[2].email = toLowerCase(last.detail[1])
    /\ merchants[2].emailVerificationToken = last.detail[2]

\* C17: a call that sends an email ends as the state of the store decides,
\* never as the sender does: with the email failing, registerMerchant of a new
\* email, verifyEmail with a token that is held, unverified and not expired,
\* and resendVerificationEmail for an unverified merchant all succeed.
C17_EmailFailureNeverFails ==
    [][/\ last'.op = "registerMerchant" =>
          \A e \in EmailInputs :
             (/\ registerMerchant(e, FALSE)
              /\ \A i \in Ids : toLowerCase(merchants[i].email) # toLowerCase(e))
                => last'.result = "ok"
       /\ last'.op = "verifyEmail" =>
          \A t \in TokenInputs :
             (/\ verifyEmail(t, FALSE)
              /\ \E i \in Holders(t) :
                    /\ ~merchants[i].emailVerified
                    /\ merchants[i].emailVerificationExpiresAt >= now)
                => last'.result = "ok"
       /\ last'.op = "resendVerificationEmail" =>
          \A e \in EmailInputs :
             (/\ resendVerificationEmail(e, FALSE)
              /\ \E i \in Ids :
                    /\ toLowerCase(merchants[i].email) = toLowerCase(e)
                    /\ ~merchants[i].emailVerified)
                => last'.result = "ok"]_vars

\* C18: a call that ends in an error leaves every merchant as it was, but for
\* verifyBankAccount, which on the provider's refusal leaves bankAccountStatus
\* FAILED and nothing else changed.
C18_AtomicOrFailed ==
    [][last'.result # "ok" =>
          IF last'.op = "verifyBankAccount"
          THEN /\ Len(merchants') = Len(merchants)
               /\ \A i \in Ids :
                     \/ merchants'[i] = merchants[i]
                     \/ merchants'[i] =
                            [merchants[i] EXCEPT !.bankAccountStatus = "FAILED"]
          ELSE merchants' = merchants]_vars

\* the account number is not 4 to 17 digits, or a routing number is supplied
\* that is not 9 digits, or a SWIFT code or IBAN is supplied that does not
\* match its pattern
IllFormed(dto) ==
    \/ Len(dto.accountNumber) < 4
    \/ Len(dto.accountNumber) > 17
    \/ \E i \in DOMAIN dto.accountNumber : dto.accountNumber[i] \notin DigitChars
    \/ /\ dto.routingNumber # <<>>
       /\ \/ Len(dto.routingNumber) # 9
          \/ \E i \in DOMAIN dto.routingNumber :
                dto.routingNumber[i] \notin DigitChars
    \/ dto.swiftCode # <<>> /\ ~validSwiftCode(dto.swiftCode)
    \/ dto.iban # <<>> /\ ~validIban(dto.iban)

C20_BankAccountVerification ==
    [][last'.op = "verifyBankAccount" =>
       \A id \in Ids, providerOk \in BOOLEAN, emailOk \in BOOLEAN :
          verifyBankAccount(id, providerOk, emailOk) =>
              LET m == merchants[id]
                  called == <<m.bankAccountNumber, m.bankRoutingNumber>> IN
              IF m.bankAccountNumber = <<>> \/ m.bankRoutingNumber = <<>>
              THEN /\ last'.result = "BankAccountNotFound"
                   /\ last'.detail = <<>>
                   /\ merchants' = merchants
              ELSE IF m.bankAccountStatus = "VERIFIED"
              THEN /\ last'.result = "BankAccountAlreadyVerified"
                   /\ last'.detail = <<>>
                   /\ merchants' = merchants
              ELSE IF ~providerOk
              THEN /\ last'.result = "BankAccountVerificationFailed"
                   /\ last'.detail = called
                   /\ merchants'[id] = [m EXCEPT !.bankAccountStatus = "FAILED"]
              ELSE /\ last'.result = "ok"
                   /\ last'.detail = called
                   /\ merchants'[id] = [m EXCEPT !.bankAccountStatus = "VERIFIED"]]_vars

\* the provider refused the account 1234 and the account is FAILED
C20_Witness ==
    /\ last.op = "verifyBankAccount"
    /\ last.result = "BankAccountVerificationFailed"
    /\ last.detail = <<<<"1", "2", "3", "4">>, RoutingOk>>
    /\ merchants[last.id].bankAccountStatus = "FAILED"
    /\ merchants[last.id].bankSwiftCode = SwiftOk
\* the updates that validateMerchantActive guards
GatedUpdates ==
    {"updateProfile", "updateBusinessDetails", "updateAddress",
     "updateBankAccount", "updateSettlementPreferences", "updateCurrencySettings"}

\* C21: on a SUSPENDED merchant each of the six guarded updates fails with
\* MerchantSuspended, on a CLOSED one with MerchantClosed, whatever the input
\* (well or ill formed), and the merchant is unchanged;
\* updateNotificationPreferences succeeds in every status; on a PENDING, ACTIVE
\* or INACTIVE merchant no update fails with MerchantSuspended or MerchantClosed.
C21_SuspendedAndClosedAreBlocked ==
    [][\A id \in Ids :
          last'.id = id
          /\ last'.op \in GatedUpdates \cup {"updateNotificationPreferences"} =>
              LET m == merchants[id] IN
              /\ last'.op \in GatedUpdates /\ m.status = "SUSPENDED" =>
                    last'.result = "MerchantSuspended" /\ merchants' = merchants
              /\ last'.op \in GatedUpdates /\ m.status = "CLOSED" =>
                    last'.result = "MerchantClosed" /\ merchants' = merchants
              /\ last'.op = "updateNotificationPreferences" =>
                    /\ last'.result = "ok"
                    /\ merchants'[id].status = m.status
              /\ m.status \in {"PENDING", "ACTIVE", "INACTIVE"} =>
                    last'.result \notin {"MerchantSuspended", "MerchantClosed"}]_vars

\* the notification preferences of a CLOSED merchant were updated; no bank
\* account update on it has gone through
C21_Witness ==
    /\ last.op = "updateNotificationPreferences"
    /\ last.result = "ok"
    /\ merchants[last.id].status = "CLOSED"
    /\ merchants[last.id].notificationPreferences.smsNotifications
    /\ merchants[last.id].bankAccountStatus = "NOT_VERIFIED"

\* C22: with changeMerchantStatus and verifyKyc calls interleaved, every write
\* that changes a merchant's status takes it along an edge of
\* VALID_STATUS_TRANSITIONS from the status stored just before the write; in
\* particular the status of a CLOSED merchant is never written again.
C22_WritesFollowTable ==
    [][\A id \in Ids :
          merchants'[id].status # merchants[id].status =>
              merchants'[id].status \in
                  VALID_STATUS_TRANSITIONS[merchants[id].status]]_vars

\* no two rows of the table hold the same email, compared case-insensitively
UniqueEmails(store) ==
    \A i, j \in DOMAIN store :
        i # j => toLowerCase(store[i].email) # toLowerCase(store[j].email)

\* C23: with registerMerchant calls interleaved, the emails of the table stay
\* unique (compared case-insensitively), and a call that comes to its create
\* or its existence check when a merchant already holds its email creates
\* nothing and fails with MerchantAlreadyExists.
C23_UniqueEmailsUnderInterleaving ==
    [][\A p \in Procs :
          procs[p].pc = "read" /\ procs'[p].pc = "done" =>
              /\ UniqueEmails(merchants')
              /\ findByEmail(procs[p].email) # 0 =>
                    /\ merchants' = merchants
                    /\ procs'[p].result = "MerchantAlreadyExists"]_vars

\* C24: a merchant just created by registerMerchant is PENDING, its KYC
\* NOT_STARTED, its bank account NOT_VERIFIED, its email unverified; it holds a
\* verification token that expires 24 hours after the creation; it supports
\* USD alone, which is its default currency; its quota is 1000 with 0 used;
\* every notification preference is on except smsNotifications and
\* marketingEmails.
C24_RegistrationDefaults ==
    [][last'.op = "registerMerchant" /\ last'.result = "ok" =>
          /\ Len(merchants') = Len(merchants) + 1
          /\ last'.id = Len(merchants')
          /\ LET m == merchants'[last'.id] IN
                /\ m.status = "PENDING"
                /\ m.kycStatus = "NOT_STARTED"
                /\ m.bankAccountStatus = "NOT_VERIFIED"
                /\ m.emailVerified = FALSE
                /\ m.emailVerificationToken # NoToken
                /\ m.emailVerificationExpiresAt = now + 24
                /\ m.supportedCurrencies = <<"USD">>
                /\ m.defaultCurrency = "USD"
                /\ m.apiQuotaLimit = 1000
                /\ m.apiQuotaUsed = 0
                /\ \A f \in DOMAIN m.notificationPreferences :
                      m.notificationPreferences[f] =
                          (f \notin {"smsNotifications", "marketingEmails"})
                /\ {"smsNotifications", "marketingEmails", "emailNotifications",
                    "pushNotifications", "paymentReceived", "settlementCompleted",
                    "kycStatusUpdate", "securityAlerts"}
                      = DOMAIN m.notificationPreferences]_vars

\* a merchant was registered some hours after the start; its token expires 24
\* hours later
C24_Witness ==
    /\ last.op = "registerMerchant"
    /\ last.result = "ok"
    /\ now > 0
    /\ merchants[last.id].emailVerificationExpiresAt = now + 24
    /\ merchants[last.id].emailVerificationToken = last.detail[2]
    /\ ~merchants[last.id].notificationPreferences.marketingEmails

\* C25: verifyEmail with a token no merchant holds fails with
\* MerchantVerificationTokenInvalid; else, the holder being verified, with
\* MerchantEmailAlreadyVerified (expired or not); else, the expiry being set
\* and before now, with MerchantVerificationTokenExpired; each failure changes
\* nothing.  Otherwise it succeeds, sets emailVerified, clears the token and
\* its expiry and changes no other field of the merchant.
C25_VerifyEmailOrder ==
    [][last'.op = "verifyEmail" =>
       \A t \in TokenInputs, emailOk \in BOOLEAN :
          verifyEmail(t, emailOk) =>
              IF \A i \in Ids : merchants[i].emailVerificationToken # t
              THEN /\ last'.result = "MerchantVerificationTokenInvalid"
                   /\ merchants' = merchants
              ELSE LET id == CHOOSE i \in Ids : merchants[i].emailVerificationToken = t
                       m == merchants[id] IN
                   IF m.emailVerified
                   THEN /\ last'.result = "MerchantEmailAlreadyVerified"
                        /\ merchants' = merchants
                   ELSE IF m.emailVerificationExpiresAt # NoTime
                           /\ m.emailVerificationExpiresAt < now
                   THEN /\ last'.result = "MerchantVerificationTokenExpired"
                        /\ merchants' = merchants
                   ELSE /\ last'.result = "ok"
                        /\ merchants' =
                              [merchants EXCEPT ![id] =
                                  [m EXCEPT !.emailVerified = TRUE,
                                            !.emailVerificationToken = NoToken,
                                            !.emailVerificationExpiresAt = NoTime]]]_vars

\* a verified merchant whose token has expired was told that it is verified
\* already, not that the token has expired
C25_Witness ==
    /\ last.op = "verifyEmail"
    /\ last.result = "MerchantEmailAlreadyVerified"
    /\ merchants[last.id].emailVerified
    /\ merchants[last.id].emailVerificationToken # NoToken
    /\ merchants[last.id].emailVerificationExpiresAt # NoTime
    /\ merchants[last.id].emailVerificationExpiresAt < now

\* C26: submitKycDocuments fails with MerchantEmailNotVerified if the email is
\* not verified; else with KycAlreadyApproved if kycStatus is APPROVED; else
\* with KycAlreadySubmitted if it is IN_REVIEW; else with KycDocumentRequired,
\* naming exactly the types missing among government_id and proof_of_address,
\* if one is missing; each failure changes nothing.  Otherwise it succeeds,
\* replaces the documents by the submitted ones, each pending, sets kycStatus
\* to PENDING and changes no other field, the status included.
C26_SubmitKycOrder ==
    [][last'.op = "submitKycDocuments" =>
       \A id \in Ids, d \in DocInputs, emailOk \in BOOLEAN :
          submitKycDocuments(id, d, emailOk) =>
              LET m == merchants[id]
                  missing == {"government_id", "proof_of_address"} \ Range(d) IN
              IF ~m.emailVerified
              THEN /\ last'.result = "MerchantEmailNotVerified"
                   /\ merchants' = merchants
              ELSE IF m.kycStatus = "APPROVED"
              THEN /\ last'.result = "KycAlreadyApproved"
                   /\ merchants' = merchants
              ELSE IF m.kycStatus = "IN_REVIEW"
              THEN /\ last'.result = "KycAlreadySubmitted"
                   /\ merchants' = merchants
              ELSE IF missing # {}
              THEN /\ last'.result = "KycDocumentRequired"
                   /\ Range(last'.detail) = missing
                   /\ Len(last'.detail) = Cardinality(missing)
                   /\ merchants' = merchants
              ELSE /\ last'.result = "ok"
                   /\ m.kycStatus \in {"NOT_STARTED", "PENDING", "REJECTED", "EXPIRED"}
                   /\ merchants' =
                         [merchants EXCEPT ![id] =
                             [m EXCEPT !.kycStatus = "PENDING",
                                       !.kycDocuments =
                                           [i \in 1..Len(d) |->
                                               [type |-> d[i],
                                                status |-> "pending"]]]]]_vars

\* a verified merchant whose KYC was rejected submitted documents without a
\* government_id and was told that this one is missing; its KYC is still
\* REJECTED
C26_Witness ==
    /\ last.op = "submitKycDocuments"
    /\ last.result = "KycDocumentRequired"
    /\ last.detail = <<"government_id">>
    /\ merchants[last.id].emailVerified
    /\ merchants[last.id].kycStatus = "REJECTED"

\* C27: verifyKyc on a merchant whose kycStatus is neither PENDING nor
\* IN_REVIEW fails with KycInvalidStatus, for either decision, and changes
\* nothing; with decision "rejected" on a PENDING or IN_REVIEW one it succeeds,
\* sets kycStatus to REJECTED, stores the reason it was given and changes no
\* other field, the status included.
C27_VerifyKycRejects ==
    [][last'.op = "verifyKyc" =>
       \A id \in Ids, d \in Decisions, r \in Reasons, emailOk \in BOOLEAN :
          verifyKyc(id, d, r, emailOk) =>
              LET m == merchants[id] IN
              /\ m.kycStatus \in {"NOT_STARTED", "APPROVED", "REJECTED", "EXPIRED"} =>
                    /\ last'.result = "KycInvalidStatus"
                    /\ merchants' = merchants
              /\ (m.kycStatus \in {"PENDING", "IN_REVIEW"} /\ d = "rejected") =>
                    /\ last'.result = "ok"
                    /\ merchants' =
                          [merchants EXCEPT ![id] =
                              [m EXCEPT !.kycStatus = "REJECTED",
                                        !.kycRejectionReason = r]]]_vars

\* the KYC in review of a suspended merchant was rejected for fraud
C27_Witness ==
    /\ last.op = "verifyKyc"
    /\ last.result = "ok"
    /\ last.detail = <<"rejected", "fraud">>
    /\ merchants[last.id].kycStatus = "REJECTED"
    /\ merchants[last.id].kycRejectionReason = "fraud"
    /\ merchants[last.id].status = "SUSPENDED"

\* what a status change of merchant id to target with this reason has to leave
\* behind: a refusal that changes nothing if the table has no such edge;
\* otherwise the new status, the reason as suspensionReason for SUSPENDED
\* alone, closedAt and the reason as closedReason for CLOSED alone, no other
\* field written; the suspension email for SUSPENDED, the reactivation email
\* for ACTIVE after SUSPENDED, no other email (none if the sender fails)
StatusChanged(id, target, reason, emailOk) ==
    LET m == merchants[id] IN
    /\ last'.id = id
    /\ IF target \notin VALID_STATUS_TRANSITIONS[m.status]
       THEN /\ last'.result = "MerchantInvalidStatus"
            /\ last'.sent = <<>>
            /\ merchants' = merchants
       ELSE /\ last'.result = "ok"
            /\ merchants' =
                  [merchants EXCEPT ![id] =
                      CASE target = "SUSPENDED" ->
                             [m EXCEPT !.status = target, !.suspensionReason = reason]
                        [] target = "CLOSED" ->
                             [m EXCEPT !.status = target, !.closedAt = now,
                                       !.closedReason = reason]
                        [] OTHER -> [m EXCEPT !.status = target]]
            /\ last'.sent =
                  IF ~emailOk THEN <<>>
                  ELSE IF target = "SUSPENDED" THEN <<"accountSuspended">>
                  ELSE IF target = "ACTIVE" /\ m.status = "SUSPENDED"
                       THEN <<"accountReactivated">>
                       ELSE <<>>

\* C28: changeMerchantStatus writes the status, the reason as suspensionReason
\* only for SUSPENDED, closedAt and closedReason only for CLOSED, and nothing
\* else; it sends the suspension email exactly for SUSPENDED and the
\* reactivation email exactly for ACTIVE after SUSPENDED; activateMerchant,
\* suspendMerchant and closeMerchantAccount do what changeMerchantStatus does
\* for ACTIVE (without reason), SUSPENDED and CLOSED.
C28_StatusChangeFrame ==
    [][\A id \in Ids, r \in Reasons, emailOk \in BOOLEAN :
          /\ last'.op = "changeMerchantStatus" =>
                \A s \in MerchantStatus :
                    changeMerchantStatus(id, s, r, emailOk) =>
                        StatusChanged(id, s, r, emailOk)
          /\ last'.op = "activateMerchant" =>
                (activateMerchant(id, emailOk) =>
                    StatusChanged(id, "ACTIVE", Undefined, emailOk))
          /\ last'.op = "suspendMerchant" =>
                (suspendMerchant(id, r, emailOk) =>
                    StatusChanged(id, "SUSPENDED", r, emailOk))
          /\ last'.op = "closeMerchantAccount" =>
                (closeMerchantAccount(id, r, emailOk) =>
                    StatusChanged(id, "CLOSED", r, emailOk))]_vars

\* a merchant once suspended for fraud was closed, some hours after the start,
\* without a reason: it keeps the suspension reason, and no email was sent
C28_Witness ==
    /\ last.op = "closeMerchantAccount"
    /\ last.result = "ok"
    /\ last.sent = <<>>
    /\ now > 0
    /\ merchants[last.id].status = "CLOSED"
    /\ merchants[last.id].closedAt = now
    /\ merchants[last.id].closedReason = Undefined
    /\ merchants[last.id].suspensionReason = "fraud"

\* C29: resetApiQuotas sets apiQuotaUsed of every merchant to 0 and changes no
\* other field (a merchant with nothing used is unchanged); run again right
\* after itself it changes nothing; a checkAndIncrementApiQuota right after it
\* on a merchant with apiQuotaLimit > 0 succeeds and uses one unit.
C29_QuotaReset ==
    [][/\ last'.op = "resetApiQuotas" =>
             /\ last'.result = "ok"
             /\ Len(merchants') = Len(merchants)
             /\ \A i \in Ids :
                   /\ merchants'[i] = [merchants[i] EXCEPT !.apiQuotaUsed = 0]
                   /\ merchants[i].apiQuotaUsed = 0 => merchants'[i] = merchants[i]
             /\ last.op = "resetApiQuotas" => merchants' = merchants
       /\ (last.op = "resetApiQuotas" /\ last'.op = "checkAndIncrementApiQuota") =>
             \A id \in Ids :
                 (checkAndIncrementApiQuota(id) /\ merchants[id].apiQuotaLimit > 0) =>
                     /\ last'.result = "ok"
                     /\ merchants'[id].apiQuotaUsed = 1]_vars

\* the quotas were reset: of two merchants, one with the default limit and one
\* with a lowered limit, neither has anything used
C29_Witness ==
    /\ last.op = "resetApiQuotas"
    /\ Len(merchants) = 2
    /\ \E i, j \in Ids :
          /\ merchants[i].apiQuotaLimit = DEFAULT_API_QUOTA_LIMIT
          /\ merchants[j].apiQuotaLimit = 1
    /\ \A i \in Ids : merchants[i].apiQuotaUsed = 0

\* C30: cleanupExpiredTokens, run on its own, clears the token and the expiry
\* of every merchant that holds a token whose expiry is before now, such a
\* merchant being unverified, and changes nothing else: no other field of
\* these merchants, and no merchant with an unexpired token or without
\* token; run again right after itself it changes nothing.
C30_TokenCleanup ==
    [][last'.op = "cleanupExpiredTokens" =>
          /\ last'.result = "ok"
          /\ Len(merchants') = Len(merchants)
          /\ \A i \in Ids :
                LET m == merchants[i] IN
                IF /\ m.emailVerificationToken # NoToken
                   /\ m.emailVerificationExpiresAt # NoTime
                   /\ m.emailVerificationExpiresAt < now
                THEN /\ ~m.emailVerified
                     /\ merchants'[i] =
                           [m EXCEPT !.emailVerificationToken = NoToken,
                                     !.emailVerificationExpiresAt = NoTime]
                ELSE merchants'[i] = m
          /\ last.op = "cleanupExpiredTokens" => merchants' = merchants]_vars

\* a cleanup found the token of merchant 1 expired and cleared it; merchant 2,
\* registered later, still holds its token
C30_Witness ==
    /\ last.op = "cleanupExpiredTokens"
    /\ last.detail = {1}
    /\ Len(merchants) = 2
    /\ merchants[1].emailVerificationToken = NoToken
    /\ merchants[1].emailVerificationExpiresAt = NoTime
    /\ ~merchants[1].emailVerified
    /\ merchants[2].emailVerificationToken # NoToken
    /\ merchants[2].emailVerificationExpiresAt > now

\* C31: searchMerchants returns the requested page, or 1 if none is given, the
\* requested limit, or 20 if none is given, the total of the store, and as
\* totalPages the least natural number n with n * limit >= total (0 for a
\* total of 0).
C31_Pagination ==
    [][last'.op = "searchMerchants" =>
       \A p \in PageInputs, l \in LimitInputs, t \in TotalInputs :
          searchMerchants(p, l, t) =>
              LET r == last'.detail
                  lim == IF l = 0 THEN 20 ELSE l IN
              /\ last'.result = "ok"
              /\ r.total = t
              /\ r.page = (IF p = 0 THEN 1 ELSE p)
              /\ r.limit = lim
              /\ r.totalPages \in Nat
              /\ r.totalPages * lim >= t
              /\ r.totalPages > 0 => (r.totalPages - 1) * lim < t
              /\ t = 0 => r.totalPages = 0]_vars

\* a search without page with limit 100 over 101 merchants reports page 1 of 2
C31_Witness ==
    /\ last.op = "searchMerchants"
    /\ last.detail = [total |-> 101, page |-> 1, limit |-> 100, totalPages |-> 2]

\* C32: at every moment a merchant whose kycStatus is not NOT_STARTED has its
\* email verified, and no step takes emailVerified from true back to false.
C32_KycOnlyAfterEmail ==
    /\ [](\A i \in Ids :
            merchants[i].kycStatus # "NOT_STARTED" => merchants[i].emailVerified)
    /\ [][\A i \in Ids :
            merchants[i].emailVerified => merchants'[i].emailVerified]_vars

\* a verified merchant whose KYC was rejected has been suspended
C32_Witness ==
    \E i \in Ids :
        /\ merchants[i].kycStatus = "REJECTED"
        /\ merchants[i].emailVerified
        /\ merchants[i].status = "SUSPENDED"

\* C33: with calls run one at a time, after every call no merchant has
\* kycStatus APPROVED and status PENDING.
C33_ApprovedIsNotPending ==
    \A i \in Ids :
        merchants[i].kycStatus = "APPROVED" => merchants[i].status # "PENDING"

\* an approved merchant, activated by the approval, was later made inactive
C33_Witness ==
    \E i \in Ids :
        /\ merchants[i].kycStatus = "APPROVED"
        /\ merchants[i].status = "INACTIVE"

\* C34: no step changes the kycStatus of a merchant that is APPROVED;
\* submitKycDocuments on it fails with KycAlreadyApproved and verifyKyc with
\* KycInvalidStatus.
C34_ApprovedIsFinal ==
    [][\A id \in Ids :
          merchants[id].kycStatus = "APPROVED" =>
              /\ merchants'[id].kycStatus = "APPROVED"
              /\ (last'.op = "submitKycDocuments" /\ last'.id = id) =>
                    last'.result = "KycAlreadyApproved"
              /\ (last'.op = "verifyKyc" /\ last'.id = id) =>
                    last'.result = "KycInvalidStatus"]_vars

\* an approved merchant, by now CLOSED, submitted documents again and was refused
C34_Witness ==
    /\ last.op = "submitKycDocuments"
    /\ last.result = "KycAlreadyApproved"
    /\ merchants[last.id].kycStatus = "APPROVED"
    /\ merchants[last.id].status = "CLOSED"

\* C35: whether submitKycDocuments and verifyKyc succeed does not depend on
\* the status of the merchant: submitKycDocuments succeeds exactly on a
\* verified merchant whose KYC is neither APPROVED nor IN_REVIEW with both
\* required documents, verifyKyc exactly on a KYC that is PENDING or
\* IN_REVIEW; an approval of a merchant that is ACTIVE, INACTIVE, SUSPENDED or
\* CLOSED sets kycStatus to APPROVED and leaves the status.
C35_KycIgnoresStatus ==
    [][/\ last'.op = "submitKycDocuments" =>
             \A id \in Ids, d \in DocInputs, emailOk \in BOOLEAN :
                submitKycDocuments(id, d, emailOk) =>
                    LET m == merchants[id] IN
                    /\ last'.result = "ok" <=>
                          /\ m.emailVerified
                          /\ m.kycStatus \notin {"APPROVED", "IN_REVIEW"}
                          /\ {"government_id", "proof_of_address"} \subseteq Range(d)
                    /\ merchants'[id].status = m.status
       /\ last'.op = "verifyKyc" =>
             \A id \in Ids, d \in Decisions, r \in Reasons, emailOk \in BOOLEAN :
                verifyKyc(id, d, r, emailOk) =>
                    LET m == merchants[id] IN
                    /\ last'.result = "ok" <=> m.kycStatus \in {"PENDING", "IN_REVIEW"}
                    /\ (/\ last'.result = "ok"
                        /\ d = "approved"
                        /\ m.status \in {"ACTIVE", "INACTIVE", "SUSPENDED", "CLOSED"}) =>
                          /\ merchants'[id].kycStatus = "APPROVED"
                          /\ merchants'[id].status = m.status]_vars

\* the KYC of a SUSPENDED merchant was approved and the merchant is still
\* SUSPENDED
C35_Witness ==
    /\ last.op = "verifyKyc"
    /\ last.result = "ok"
    /\ last.detail[1] = "approved"
    /\ merchants[last.id].kycStatus = "APPROVED"
    /\ merchants[last.id].status = "SUSPENDED"
    /\ merchants[last.id].suspensionReason = "fraud"

\* C36: resendVerificationEmail for an email no merchant has fails with
\* MerchantNotFound, for a verified merchant with
\* MerchantEmailAlreadyVerified, and both change nothing; otherwise it gives
\* the merchant a token never issued before, with an expiry 24 hours from now,
\* in place of the one it held, and succeeds if the email goes out.  Right
\* after a successful resend, verifyEmail verifies that merchant with the new
\* token and with no other, and fails with MerchantVerificationTokenInvalid
\* for every token that no other merchant holds.
C36_ResendReplacesToken ==
    [][/\ last'.op = "resendVerificationEmail" =>
             \A e \in EmailInputs, emailOk \in BOOLEAN :
                resendVerificationEmail(e, emailOk) =>
                    IF \A i \in Ids : merchants[i].email # toLowerCase(e)
                    THEN /\ last'.result = "MerchantNotFound"
                         /\ merchants' = merchants
                    ELSE LET id == CHOOSE i \in Ids : merchants[i].email = toLowerCase(e)
                             m == merchants[id] IN
                         IF m.emailVerified
                         THEN /\ last'.result = "MerchantEmailAlreadyVerified"
                              /\ merchants' = merchants
                         ELSE /\ emailOk => last'.result = "ok"
                              /\ merchants'[id].emailVerificationToken > nextToken
                              /\ merchants' =
                                    [merchants EXCEPT ![id] =
                                        [m EXCEPT !.emailVerificationToken =
                                                      merchants'[id].emailVerificationToken,
                                                  !.emailVerificationExpiresAt = now + 24]]
       /\ (/\ last.op = "resendVerificationEmail"
           /\ last.result = "ok"
           /\ last'.op = "verifyEmail") =>
             \A t \in TokenInputs, emailOk \in BOOLEAN :
                verifyEmail(t, emailOk) =>
                    IF t = merchants[last.id].emailVerificationToken
                    THEN /\ last'.result = "ok"
                         /\ last'.id = last.id
                         /\ t = last.detail[1]
                    ELSE /\ last'.id # last.id
                         /\ (\A i \in Ids : merchants[i].emailVerificationToken # t)
                               => last'.result = "MerchantVerificationTokenInvalid"]_vars

\* the only merchant, registered with token 1, was sent token 2 some hours
\* later; it holds token 2, which expires 24 hours from now
C36_Witness ==
    /\ last.op = "resendVerificationEmail"
    /\ last.result = "ok"
    /\ last.detail = <<2>>
    /\ now > 0
    /\ Len(merchants) = 1
    /\ merchants[1].emailVerificationToken = 2
    /\ merchants[1].emailVerificationExpiresAt = now + 24

\* C37: with updateBankAccount interleaved with verifyBankAccount, a bank
\* account becomes VERIFIED only by the write of a verification whose provider
\* call was made for the account number and routing number that are stored,
\* both present; and the numbers of a VERIFIED account do not change while it
\* stays VERIFIED.  Hence a VERIFIED account is always the one the provider
\* confirmed.
C37_VerifiedIsConfirmed ==
    [][\A id \in Ids :
          /\ (/\ merchants'[id].bankAccountStatus = "VERIFIED"
              /\ merchants[id].bankAccountStatus # "VERIFIED") =>
                \E p \in Procs :
                    /\ procs[p].pc = "called"
                    /\ procs'[p].pc = "done"
                    /\ procs[p].id = id
                    /\ procs[p].bank = <<merchants'[id].bankAccountNumber,
                                         merchants'[id].bankRoutingNumber>>
                    /\ merchants'[id].bankAccountNumber # <<>>
                    /\ merchants'[id].bankRoutingNumber # <<>>
          /\ (/\ merchants'[id].bankAccountStatus = "VERIFIED"
              /\ merchants[id].bankAccountStatus = "VERIFIED") =>
                /\ merchants'[id].bankAccountNumber = merchants[id].bankAccountNumber
                /\ merchants'[id].bankRoutingNumber =
                      merchants[id].bankRoutingNumber]_vars

\* C38: with resendVerificationEmail interleaved with the cleanup job, every
\* clearing write of cleanupExpiredTokens clears a token that is expired at
\* the moment of the write; a token that has not expired is left in place.
C38_CleanupClearsOnlyExpired ==
    [][last'.op = "cleanupExpiredTokens" =>
          \A id \in Ids :
              (/\ merchants[id].emailVerificationToken # NoToken
               /\ merchants'[id].emailVerificationToken = NoToken) =>
                  tokenExpired(merchants[id])]_vars

\* C39: updateApiQuota succeeds for a merchant in any status and with any new
\* limit, and changes the merchant's apiQuotaLimit and nothing else; while
\* the limit is at or below apiQuotaUsed every checkAndIncrementApiQuota is
\* refused with ApiQuotaExceeded and changes nothing, and only resetApiQuotas
\* or another updateApiQuota ends that condition.
C39_UpdateApiQuotaFrame ==
    [][/\ last'.op = "updateApiQuota" =>
             \A id \in IdInputs, l \in QuotaLimits :
                 updateApiQuota(id, l) =>
                     IF id \in Ids
                     THEN /\ last'.result = "ok"
                          /\ merchants' = [merchants EXCEPT ![id].apiQuotaLimit = l]
                     ELSE /\ last'.result = "MerchantNotFound"
                          /\ merchants' = merchants
       /\ last'.op = "checkAndIncrementApiQuota" =>
             \A id \in Ids :
                 (/\ checkAndIncrementApiQuota(id)
                  /\ merchants[id].apiQuotaLimit <= merchants[id].apiQuotaUsed) =>
                     /\ last'.result = "ApiQuotaExceeded"
                     /\ merchants' = merchants
       /\ \A id \in Ids :
             (/\ merchants[id].apiQuotaLimit <= merchants[id].apiQuotaUsed
              /\ merchants'[id].apiQuotaLimit > merchants'[id].apiQuotaUsed) =>
                 \/ last'.op = "resetApiQuotas"
                 \/ /\ last'.op = "updateApiQuota"
                    /\ merchants'[id].apiQuotaLimit > merchants[id].apiQuotaLimit]_vars

\* a suspended merchant that has used its quota is given a limit at or below
\* what it has used
C39_Witness ==
    /\ last.op = "updateApiQuota"
    /\ last.result = "ok"
    /\ Len(merchants) = 1
    /\ merchants[1].status = "SUSPENDED"
    /\ merchants[1].apiQuotaUsed > 0
    /\ merchants[1].apiQuotaLimit > 0
    /\ merchants[1].apiQuotaLimit <= merchants[1].apiQuotaUsed

=============================================================================
